---- MODULE Spec2Model ----
(***************************************************************************)
(* Model of the esp-to-phone session/message protocol.                     *)
(*                                                                         *)
(* The peripheral is firmware/src/main.cpp: the bounded history queue      *)
(* (message_queue, message_count, current_message_index), the connection   *)
(* flag set by the BLE server callbacks, the inbound dispatch of onWrite   *)
(* and the outbound send_ble_message.                                      *)
(*                                                                         *)
(* A C++ String is a finite sequence of bytes; a byte is written as a      *)
(* one-character string, or as "xHH" when it is not printable ASCII (the   *)
(* UTF-8 bytes of the emoji of the source).                                *)
(***************************************************************************)
EXTENDS Integers, Sequences, FiniteSets, TLC

\* ------------------------------------------------------------------------
\* Program constants and literals of firmware/src/main.cpp

\* const int MAX_MESSAGES = 10;
MAX_MESSAGES == 10

\* const size_t MAX_NOTIFICATION_SIZE = 200;
MAX_NOTIFICATION_SIZE == 200

\* the text onConnect appends
MSG_PhoneConnected ==
    <<"xF0", "x9F", "x93", "xB1", " ", "P", "h", "o", "n", "e", " ", "c",
      "o", "n", "n", "e", "c", "t", "e", "d", "!">>

\* the text onDisconnect appends
MSG_PhoneDisconnected ==
    <<"xF0", "x9F", "x93", "xB1", " ", "P", "h", "o", "n", "e", " ", "d",
      "i", "s", "c", "o", "n", "n", "e", "c", "t", "e", "d">>

\* the text btn1_event_handler appends
MSG_AskAI ==
    <<"xF0", "x9F", "x94", "xB5", " ", "A", "I", " ", "A", "s", "s", "i",
      "s", "t", "a", "n", "t", ":", " ", "H", "o", "w", " ", "c", "a", "n",
      " ", "I", " ", "h", "e", "l", "p", " ", "y", "o", "u", "?">>

\* the text loop() appends on the connect edge
MSG_Ready ==
    <<"R", "e", "a", "d", "y", " ", "t", "o", " ", "c", "o", "m", "m", "u",
      "n", "i", "c", "a", "t", "e", "!">>

\* prefix of the history entry of an ai_request
PFX_Processing ==
    <<"xF0", "x9F", "xA4", "x96", " ", "P", "r", "o", "c", "e", "s", "s",
      "i", "n", "g", ":", " ">>

\* prefix of the history entry of every other inbound frame
PFX_Phone ==
    <<"xF0", "x9F", "x93", "xB1", " ">>

\* prefix of the ai_response reply text
PFX_AIResponse ==
    <<"A", "I", " ", "R", "e", "s", "p", "o", "n", "s", "e", " ", "t", "o",
      ":", " ">>

\* text of current_message_label after setup_ui
LABEL_Initial ==
    <<"E", "S", "P", "3", "2", " ", "R", "e", "a", "d", "y", "!", "\n",
      "W", "a", "i", "t", "i", "n", "g", " ", "f", "o", "r", " ", "p", "h",
      "o", "n", "e", " ", "c", "o", "n", "n", "e", "c", "t", "i", "o", "n",
      ".", ".", ".">>

\* JSON key "type"
K_type ==
    <<"t", "y", "p", "e">>

\* JSON key "message"
K_message ==
    <<"m", "e", "s", "s", "a", "g", "e">>

\* JSON key "action"
K_action ==
    <<"a", "c", "t", "i", "o", "n">>

\* frame type of the ready frame
T_connected ==
    <<"c", "o", "n", "n", "e", "c", "t", "e", "d">>

\* inbound frame type
T_ai_request ==
    <<"a", "i", "_", "r", "e", "q", "u", "e", "s", "t">>

\* reply frame type
T_ai_response ==
    <<"a", "i", "_", "r", "e", "s", "p", "o", "n", "s", "e">>

\* inbound frame type
T_test ==
    <<"t", "e", "s", "t">>

\* reply frame type
T_test_response ==
    <<"t", "e", "s", "t", "_", "r", "e", "s", "p", "o", "n", "s", "e">>

\* inbound frame type
T_hello ==
    <<"h", "e", "l", "l", "o">>

\* reply frame type
T_welcome ==
    <<"w", "e", "l", "c", "o", "m", "e">>

\* frame type of the button frame
T_btn ==
    <<"b", "t", "n">>

\* message of the ready frame
TXT_EspReady ==
    <<"E", "S", "P", "3", "2", " ", "r", "e", "a", "d", "y", " ", "f", "o",
      "r", " ", "c", "o", "m", "m", "u", "n", "i", "c", "a", "t", "i", "o",
      "n">>

\* message of the test_response reply
TXT_HelloFromEsp ==
    <<"H", "e", "l", "l", "o", " ", "f", "r", "o", "m", " ", "E", "S", "P",
      "3", "2", "!">>

\* message of the welcome reply
TXT_HelloReadyToChat ==
    <<"H", "e", "l", "l", "o", " ", "f", "r", "o", "m", " ", "E", "S", "P",
      "3", "2", "!", " ", "R", "e", "a", "d", "y", " ", "t", "o", " ", "c",
      "h", "a", "t", ".">>

\* message of the button frame
TXT_AskAI ==
    <<"A", "s", "k", " ", "A", "I">>

\* action tag
A_ready ==
    <<"r", "e", "a", "d", "y">>

\* action tag
A_processed ==
    <<"p", "r", "o", "c", "e", "s", "s", "e", "d">>

\* action tag
A_ack ==
    <<"a", "c", "k">>

\* action tag
A_ask ==
    <<"a", "s", "k">>

\* ------------------------------------------------------------------------
\* Strings and the JSON codec (ArduinoJson as main.cpp uses it)

\* the NUL byte
NUL == "x00"

\* the least element of a non-empty set of numbers
SetMin(S) == CHOOSE x \in S : \A y \in S : x <= y

\* the first position at or after i that holds a byte of the set, or the
\* position after the last byte when there is none
FirstAt(bytes, i, set) ==
    LET hits == {j \in i .. Len(bytes) : bytes[j] \in set}
    IN  IF hits = {} THEN Len(bytes) + 1 ELSE SetMin(hits)

\* String(const char *): the bytes before the first NUL. This is what
\* `String received_data = pCharacteristic->getValue().c_str()` keeps of the
\* written value and what setValue(json_string.c_str()) hands to the stack.
CStr(bytes) ==
    SubSeq(bytes, 1, FirstAt(bytes, 1, {NUL}) - 1)

Quote == "\""
Backslash == "\\"
Whitespace == {" ", "\n", "\t", "\r"}
Digits == {"0", "1", "2", "3", "4", "5", "6", "7", "8", "9"}

\* the escaping serializeJson applies inside a string
RECURSIVE EscapeJson(_)
EscapeJson(str) ==
    LET j == FirstAt(str, 1, {Quote, Backslash, "\n", "\t", "\r"})
    IN  IF j > Len(str)
        THEN str
        ELSE SubSeq(str, 1, j - 1)
             \o (CASE str[j] \in {Quote, Backslash} -> <<Backslash, str[j]>>
                   [] str[j] = "\n" -> <<Backslash, "n">>
                   [] str[j] = "\t" -> <<Backslash, "t">>
                   [] str[j] = "\r" -> <<Backslash, "r">>)
             \o EscapeJson(SubSeq(str, j + 1, Len(str)))

Quoted(str) ==
    <<Quote>> \o EscapeJson(str) \o <<Quote>>

\* doc["type"] = type; doc["message"] = message; doc["action"] = action;
\* serializeJson(doc, json_string): the members in insertion order
serializeJson(type, message, action) ==
    <<"{">> \o Quoted(K_type) \o <<":">> \o Quoted(type)
    \o <<",">> \o Quoted(K_message) \o <<":">> \o Quoted(message)
    \o <<",">> \o Quoted(K_action) \o <<":">> \o Quoted(action)
    \o <<"}">>

\* the first position at or after i that holds no whitespace
RECURSIVE SkipWs(_, _)
SkipWs(bytes, i) ==
    IF i <= Len(bytes) /\ bytes[i] \in Whitespace
    THEN SkipWs(bytes, i + 1)
    ELSE i

ParseFail(i) ==
    [ok |-> FALSE, val |-> <<>>, next |-> i]

\* a string body from position i (after the opening quote) to its closing quote
RECURSIVE ScanString(_, _, _)
ScanString(bytes, i, acc) ==
    LET j == FirstAt(bytes, i, {Quote, Backslash})
        read == acc \o SubSeq(bytes, i, j - 1)
    IN  IF j > Len(bytes)
        THEN ParseFail(j)
        ELSE IF bytes[j] = Quote
        THEN [ok |-> TRUE, val |-> read, next |-> j + 1]
        ELSE IF j + 1 > Len(bytes)
        THEN ParseFail(j)
        ELSE CASE bytes[j + 1] \in {Quote, Backslash, "/"} ->
                      ScanString(bytes, j + 2, Append(read, bytes[j + 1]))
               [] bytes[j + 1] = "n" -> ScanString(bytes, j + 2, Append(read, "\n"))
               [] bytes[j + 1] = "t" -> ScanString(bytes, j + 2, Append(read, "\t"))
               [] bytes[j + 1] = "r" -> ScanString(bytes, j + 2, Append(read, "\r"))
               [] OTHER -> ParseFail(j)

\* a run of digits from position i
RECURSIVE ScanDigits(_, _, _)
ScanDigits(bytes, i, acc) ==
    IF i <= Len(bytes) /\ bytes[i] \in Digits
    THEN ScanDigits(bytes, i + 1, Append(acc, bytes[i]))
    ELSE [ok |-> acc # <<>>, val |-> acc, next |-> i]

\* a member value at position i: a string or an unsigned integer (the two
\* kinds of value the frames of this protocol carry)
ParseValue(bytes, i) ==
    IF i > Len(bytes)
    THEN [ok |-> FALSE, kind |-> "none", val |-> <<>>, next |-> i]
    ELSE IF bytes[i] = Quote
    THEN LET r == ScanString(bytes, i + 1, <<>>)
         IN  [ok |-> r.ok, kind |-> "string", val |-> r.val, next |-> r.next]
    ELSE LET r == ScanDigits(bytes, i, <<>>)
         IN  [ok |-> r.ok, kind |-> "number", val |-> r.val, next |-> r.next]

\* the members of an object from position i (a key is expected there);
\* doc maps each key read so far to its value
RECURSIVE ParseMembers(_, _, _)
ParseMembers(bytes, i, doc) ==
    IF i > Len(bytes) \/ bytes[i] # Quote
    THEN [error |-> TRUE, doc |-> doc]
    ELSE
    LET key == ScanString(bytes, i + 1, <<>>)
        colon == SkipWs(bytes, key.next)
    IN  IF ~key.ok \/ colon > Len(bytes) \/ bytes[colon] # ":"
        THEN [error |-> TRUE, doc |-> doc]
        ELSE
        LET value == ParseValue(bytes, SkipWs(bytes, colon + 1))
            after == SkipWs(bytes, value.next)
            doc2 == (key.val :> [kind |-> value.kind, val |-> value.val]) @@ doc
        IN  IF ~value.ok \/ after > Len(bytes)
            THEN [error |-> TRUE, doc |-> doc]
            ELSE IF bytes[after] = "}"
            THEN [error |-> SkipWs(bytes, after + 1) <= Len(bytes), doc |-> doc2]
            ELSE IF bytes[after] = ","
            THEN ParseMembers(bytes, SkipWs(bytes, after + 1), doc2)
            ELSE [error |-> TRUE, doc |-> doc]

\* the document without members
EmptyDoc == [key \in {} |-> [kind |-> "none", val |-> <<>>]]

\* DeserializationError error = deserializeJson(doc, received_data): the
\* error flag and the document. The parser accepts one JSON object whose
\* members are strings or unsigned integers and reports everything else as
\* an error.
deserializeJson(bytes) ==
    LET start == SkipWs(bytes, 1)
    IN  IF start > Len(bytes) \/ bytes[start] # "{"
        THEN [error |-> TRUE, doc |-> EmptyDoc]
        ELSE LET first == SkipWs(bytes, start + 1)
             IN  IF first <= Len(bytes) /\ bytes[first] = "}"
                 THEN [error |-> SkipWs(bytes, first + 1) <= Len(bytes), doc |-> EmptyDoc]
                 ELSE ParseMembers(bytes, first, EmptyDoc)

\* doc[key] | "": the member when it is a string, the empty String otherwise
StringOr(doc, key) ==
    IF key \in DOMAIN doc /\ doc[key].kind = "string"
    THEN doc[key].val
    ELSE <<>>

\* ------------------------------------------------------------------------
\* The codec of the mobile app (App.tsx): JSON.stringify, Buffer's base64
\* and UTF-8 conversions, JSON.parse. A JavaScript string is held as the
\* bytes of its UTF-8 form.

\* key of the member sendBLEMessage adds (App.tsx:533)
K_timestamp ==
    <<"t", "i", "m", "e", "s", "t", "a", "m", "p">>

\* the hello frame connectToDevice sends (App.tsx:387-391)
TXT_ConnectedFromApp ==
    <<"C", "o", "n", "n", "e", "c", "t", "e", "d", " ", "f", "r", "o", "m",
      " ", "R", "e", "a", "c", "t", " ", "N", "a", "t", "i", "v", "e", " ",
      "a", "p", "p", "!">>

A_connection_established ==
    <<"c", "o", "n", "n", "e", "c", "t", "i", "o", "n", "_", "e", "s", "t",
      "a", "b", "l", "i", "s", "h", "e", "d">>

\* the test frame sendTestMessage sends (App.tsx:765-769)
TXT_HelloFromApp ==
    <<"H", "e", "l", "l", "o", " ", "f", "r", "o", "m", " ", "R", "e", "a",
      "c", "t", " ", "N", "a", "t", "i", "v", "e", " ", "a", "p", "p", "!">>

A_test_message ==
    <<"t", "e", "s", "t", "_", "m", "e", "s", "s", "a", "g", "e">>

\* the decimal digits of a natural number
RECURSIVE Decimal(_)
Decimal(n) ==
    IF n < 10
    THEN <<CHOOSE d \in Digits : d = ToString(n)>>
    ELSE Decimal(n \div 10) \o Decimal(n % 10)

\* Date.now() as text: milliseconds since the epoch have thirteen digits;
\* the model's clock supplies the last one
EpochPrefix ==
    <<"1", "7", "0", "0", "0", "0", "0", "0", "0", "0", "0", "0">>

DateNowText(t) ==
    EpochPrefix \o Decimal(t)

\* JSON.stringify({type, message, action, timestamp}) (App.tsx:529-536):
\* the members in insertion order, the timestamp as a number
JSON_stringify(type, message, action, timestamp) ==
    <<"{">> \o Quoted(K_type) \o <<":">> \o Quoted(type)
    \o <<",">> \o Quoted(K_message) \o <<":">> \o Quoted(message)
    \o <<",">> \o Quoted(K_action) \o <<":">> \o Quoted(action)
    \o <<",">> \o Quoted(K_timestamp) \o <<":">> \o timestamp
    \o <<"}">>

\* JSON.parse for the objects of this protocol: the error flag (a thrown
\* SyntaxError) and the members
JSON_parse(text) ==
    deserializeJson(text)

\* jsonData[key] as it concatenates into a string: the member's text, or
\* "undefined" when the member is absent
TXT_undefined ==
    <<"u", "n", "d", "e", "f", "i", "n", "e", "d">>

JsMember(doc, key) ==
    IF key \in DOMAIN doc THEN doc[key].val ELSE TXT_undefined

\* jsonData[key] is truthy: present and not the empty string (a number of
\* this protocol is never 0)
JsTruthy(doc, key) ==
    key \in DOMAIN doc /\ doc[key].val # <<>>

\* Base64. Three bytes become four characters, a last group of one or two
\* bytes is padded to four; a character is held as its group and its place
\* in the group.
toBase64(bytes) ==
    LET groups == (Len(bytes) + 2) \div 3
        last(n) == IF 3 * n < Len(bytes) THEN 3 * n ELSE Len(bytes)
    IN  [c \in 1 .. 4 * groups |->
            LET n == (c + 3) \div 4
            IN  [g |-> SubSeq(bytes, 3 * n - 2, last(n)), k |-> c - 4 * (n - 1)]]

\* the concatenation of the sequences seqs[lo], ..., seqs[hi]
RECURSIVE Flatten(_, _, _)
Flatten(seqs, lo, hi) ==
    IF lo > hi THEN <<>>
    ELSE IF lo = hi THEN seqs[lo]
    ELSE LET mid == (lo + hi) \div 2
         IN  Flatten(seqs, lo, mid) \o Flatten(seqs, mid + 1, hi)

\* Buffer.from(text, 'base64'): whole groups decode to their bytes; of a
\* last group cut to two or three characters one or two bytes remain
fromBase64(chars) ==
    LET whole == Len(chars) \div 4
        rest == Len(chars) - 4 * whole
        cut == IF rest < 2
               THEN <<>>
               ELSE LET group == chars[4 * whole + 1].g
                        n == IF rest - 1 < Len(group) THEN rest - 1 ELSE Len(group)
                    IN  SubSeq(group, 1, n)
    IN  Flatten([n \in 1 .. whole |-> chars[4 * n].g], 1, whole) \o cut

\* UTF-8: continuation bytes and the lead bytes of two-, three- and
\* four-byte sequences
Utf8Cont ==
    {"x80", "x81", "x82", "x83", "x84", "x85", "x86", "x87", "x88", "x89",
     "x8A", "x8B", "x8C", "x8D", "x8E", "x8F", "x90", "x91", "x92", "x93",
     "x94", "x95", "x96", "x97", "x98", "x99", "x9A", "x9B", "x9C", "x9D",
     "x9E", "x9F", "xA0", "xA1", "xA2", "xA3", "xA4", "xA5", "xA6", "xA7",
     "xA8", "xA9", "xAA", "xAB", "xAC", "xAD", "xAE", "xAF", "xB0", "xB1",
     "xB2", "xB3", "xB4", "xB5", "xB6", "xB7", "xB8", "xB9", "xBA", "xBB",
     "xBC", "xBD", "xBE", "xBF"}

Utf8Lead2 ==
    {"xC2", "xC3", "xC4", "xC5", "xC6", "xC7", "xC8", "xC9", "xCA", "xCB",
     "xCC", "xCD", "xCE", "xCF", "xD0", "xD1", "xD2", "xD3", "xD4", "xD5",
     "xD6", "xD7", "xD8", "xD9", "xDA", "xDB", "xDC", "xDD", "xDE", "xDF"}

Utf8Lead3 ==
    {"xE0", "xE1", "xE2", "xE3", "xE4", "xE5", "xE6", "xE7", "xE8", "xE9",
     "xEA", "xEB", "xEC", "xED", "xEE", "xEF"}

Utf8Lead4 ==
    {"xF0", "xF1", "xF2", "xF3", "xF4"}

Utf8Invalid ==
    {"xC0", "xC1", "xF5", "xF6", "xF7", "xF8", "xF9", "xFA", "xFB", "xFC",
     "xFD", "xFE", "xFF"}

\* U+FFFD, which the decoder puts in place of bytes that are no UTF-8
Utf8Replacement == <<"xEF", "xBF", "xBD">>

\* continuation bytes a lead byte asks for
Utf8Need(b) ==
    IF b \in Utf8Lead2 THEN 1
    ELSE IF b \in Utf8Lead3 THEN 2
    ELSE IF b \in Utf8Lead4 THEN 3
    ELSE 0

\* the continuation bytes at position i, at most max of them
RECURSIVE Utf8Run(_, _, _)
Utf8Run(bytes, i, max) ==
    IF max > 0 /\ i <= Len(bytes) /\ bytes[i] \in Utf8Cont
    THEN 1 + Utf8Run(bytes, i + 1, max - 1)
    ELSE 0

\* buffer.toString('utf-8'): well-formed sequences are kept, every
\* ill-formed one becomes U+FFFD
RECURSIVE Utf8Decode(_)
Utf8Decode(bytes) ==
    LET j == FirstAt(bytes, 1, Utf8Cont \cup Utf8Lead2 \cup Utf8Lead3
                                \cup Utf8Lead4 \cup Utf8Invalid)
    IN  IF j > Len(bytes)
        THEN bytes
        ELSE LET need == Utf8Need(bytes[j])
                 run == Utf8Run(bytes, j + 1, need)
             IN  SubSeq(bytes, 1, j - 1)
                 \o (IF need > 0 /\ run = need
                     THEN SubSeq(bytes, j, j + need)
                     ELSE Utf8Replacement)
                 \o Utf8Decode(SubSeq(bytes, j + run + 1, Len(bytes)))

\* const maxPayloadSize = 200 (App.tsx:594)
maxPayloadSize == 200

\* finalMessage of sendBLEMessage (App.tsx:584-606): the base64 text of the
\* JSON, cut to maxPayloadSize characters when it is longer
finalMessage(jsonString) ==
    LET encodedMessage == toBase64(jsonString)
    IN  IF Len(encodedMessage) > maxPayloadSize
        THEN SubSeq(encodedMessage, 1, maxPayloadSize)
        ELSE encodedMessage

\* the hello frame as the app encodes it
RX_Hello ==
    JSON_stringify(T_hello, TXT_ConnectedFromApp, A_connection_established,
                   DateNowText(0))

\* an ai_request frame
RX_AiRequest ==
    <<"{">> \o Quoted(K_type) \o <<":">> \o Quoted(T_ai_request)
    \o <<",">> \o Quoted(K_message) \o <<":">> \o Quoted(<<"h", "i">>)
    \o <<"}">>

\* ------------------------------------------------------------------------
\* Values a central writes to the RX characteristic

\* the test frame of the mobile app (App.tsx sendTestMessage)
RX_Test ==
    <<"{", "\"", "t", "y", "p", "e", "\"", ":", "\"", "t", "e", "s", "t",
      "\"", ",", "\"", "m", "e", "s", "s", "a", "g", "e", "\"", ":", "\"",
      "H", "e", "l", "l", "o", " ", "f", "r", "o", "m", " ", "R", "e", "a",
      "c", "t", " ", "N", "a", "t", "i", "v", "e", " ", "a", "p", "p", "!",
      "\"", ",", "\"", "a", "c", "t", "i", "o", "n", "\"", ":", "\"", "t",
      "e", "s", "t", "_", "m", "e", "s", "s", "a", "g", "e", "\"", "}">>

\* a frame of a type the dispatch does not know
RX_Other ==
    <<"{", "\"", "t", "y", "p", "e", "\"", ":", "\"", "n", "o", "t", "e",
      "\"", ",", "\"", "m", "e", "s", "s", "a", "g", "e", "\"", ":", "\"",
      "m", "e", "m", "o", "\"", "}">>

\* a JSON object without a type member
RX_NoType ==
    <<"{", "\"", "m", "e", "s", "s", "a", "g", "e", "\"", ":", "\"",
      "m", "e", "m", "o", "\"", "}">>

\* bytes that are no JSON
RX_NotJson ==
    <<"{", "n", "o", "t", " ", "j", "s", "o", "n">>

\* a frame cut in the middle of a string
RX_Cut ==
    <<"{", "\"", "t", "y", "p", "e", "\"", ":", "\"", "t", "e", "s", "t",
      "\"", ",", "\"", "m", "e", "s", "s", "a", "g", "e", "\"", ":", "\"",
      "H", "e", "l", "l", "o", " ", "f", "r">>

\* a complete frame followed by a NUL byte and by bytes that are no JSON
RX_NulTail ==
    RX_Test \o <<NUL>> \o RX_NotJson

\* the empty value
RX_Empty == <<>>

RxInputs ==
    {RX_Test, RX_Hello, RX_AiRequest, RX_Other, RX_NoType, RX_NotJson, RX_Cut,
     RX_NulTail, RX_Empty}

\* ------------------------------------------------------------------------
\* Bounds of the model

\* appends of one run of the queue specification (more than MAX_MESSAGES)
MaxAppends == 12

\* the strings the queue specification appends
QueueInputs == {MSG_Ready, MSG_AskAI}

\* connections the stack admits in one run
MaxConnects == 3

\* values written to the RX characteristic in one run
MaxWrites == 1

\* clicks of the Ask AI button in one run
MaxClicks == 2

\* the centrals in radio range
Peers == {"phone", "other"}

\* BLEDevice::setMTU(256): the largest ATT MTU the peripheral agrees to
LOCAL_MTU == 256

\* The ATT MTU of a link: 23 (the ATT default) from the moment the link is
\* established, and after the exchange the smaller of LOCAL_MTU and what the
\* central's stack offers.
DefaultMtu == 23
ExchangedMtus == {185, LOCAL_MTU}

\* ------------------------------------------------------------------------
\* State

VARIABLES
    message_queue,          \* String message_queue[MAX_MESSAGES]
    message_count,          \* int message_count
    current_message_index,  \* int current_message_index
    label,                  \* text of current_message_label
    deviceConnected,        \* bool deviceConnected
    oldDeviceConnected,     \* bool oldDeviceConnected
    connection_label,       \* text of connection_label
    btn1_hidden,            \* LV_OBJ_FLAG_HIDDEN of btn1
    loop_pc,                \* where loop() is: "run", or "delay" inside delay(500)
    advertising,            \* the stack is advertising (connectable)
    link,                   \* the links the stack holds: admitted peer -> ATT MTU
    rx_value,               \* value of the RX characteristic (the last write)
    tx,                     \* the notifications the last step handed to the stack
    ctx,                    \* per task: the call in progress, statement by statement
    oob,                    \* an index outside message_queue has been used
    appended,               \* history: every string appended so far
    lastOp,                 \* history: the operation of the last step
    nConnects,              \* history: connections admitted so far
    nWrites,                \* history: values written so far
    nClicks,                \* history: clicks so far
    codec,                  \* a frame on its way through the codecs of both sides
    isConnected,            \* useState: isConnected
    connectedDevice,        \* useState: connectedDevice ("none" for null)
    isScanning,             \* useState: isScanning
    dynamicUUIDs,           \* useState: dynamicUUIDs ("none" for null)
    messages,               \* useState: messages, the Conversation Log
    messageIdCounter,       \* useRef: messageIdCounter.current
    now,                    \* Date.now(), in milliseconds after the first
    scanner,                \* the scan the library runs, and the attempt it is of
    attempts,               \* the calls of scanForDevices: locals, timers, closure
    calls,                  \* the calls of connectToDevice
    sends,                  \* the calls of sendBLEMessage past the guard
    disconnecting,          \* where disconnectDevice is
    monitoring,             \* the TX characteristic is monitored
    inbox,                  \* notifications not yet handed to the monitor
    discEvent,              \* the onDisconnected event not yet handed over
    nTests,                 \* history: presses of Test so far
    nQr,                    \* history: QR results so far
    nLost                   \* history: links lost so far

queueVars == <<message_queue, message_count, current_message_index, label>>
connVars == <<deviceConnected, oldDeviceConnected, connection_label, btn1_hidden, loop_pc>>
stackVars == <<advertising, link, rx_value, tx>>
histVars == <<appended, lastOp>>
countVars == <<nConnects, nWrites, nClicks>>
taskVars == <<ctx, oob>>
centralVars ==
    <<isConnected, connectedDevice, isScanning, dynamicUUIDs, messages,
      messageIdCounter, now, scanner, attempts, calls, sends, disconnecting,
      monitoring, inbox, discEvent, nTests, nQr, nLost>>
appVars == <<codec, centralVars>>
vars == <<queueVars, connVars, stackVars, taskVars, histVars, countVars, appVars>>

\* The two execution contexts: the BLE stack's task, which runs the server
\* and characteristic callbacks, and the main task, which runs loop() and
\* with it the LVGL event handlers.
Tasks == {"ble", "main"}

\* a task that is in no call
Idle == [pc |-> "idle", todo |-> <<>>, i |-> 0]

\* no link
NoLink == [p \in {} |-> DefaultMtu]

\* the peers the stack has admitted
admitted == DOMAIN link

\* the slots of message_queue
Slots == 0 .. (MAX_MESSAGES - 1)

\* the empty String
EmptyString == <<>>

\* the history queue as one value
HQ ==
    [mq |-> message_queue, mc |-> message_count,
     ci |-> current_message_index, lbl |-> label]

SetHQ(q) ==
    /\ message_queue' = q.mq
    /\ message_count' = q.mc
    /\ current_message_index' = q.ci
    /\ label' = q.lbl

\* ------------------------------------------------------------------------
\* The bounded history queue (main.cpp:371-413)

\* Variant of ShiftLoop: the loop stops one slot early (i < MAX_MESSAGES - 2)
RECURSIVE ShiftLoop_OneShort(_, _)
ShiftLoop_OneShort(mq, i) ==
    IF i < MAX_MESSAGES - 2
    THEN ShiftLoop_OneShort([mq EXCEPT ![i] = mq[i + 1]], i + 1)
    ELSE mq

\* for (int i = 0; i < MAX_MESSAGES - 1; i++) message_queue[i] = message_queue[i + 1];
RECURSIVE ShiftLoop(_, _)
ShiftLoop(mq, i) ==
    IF i < MAX_MESSAGES - 1
    THEN ShiftLoop([mq EXCEPT ![i] = mq[i + 1]], i + 1)
    ELSE mq

\* lv_label_set_text(current_message_label, message_queue[current_message_index].c_str())
ShowCurrent(q) ==
    [q EXCEPT !.lbl = q.mq[q.ci]]

\* Variant of add_message_to_queue: the cursor is left where it is
add_message_to_queue_KeepsCursor(q, message) ==
    LET stored ==
            IF q.mc < MAX_MESSAGES
            THEN [q EXCEPT !.mq[q.mc] = message, !.mc = q.mc + 1]
            ELSE [q EXCEPT !.mq = [ShiftLoop(q.mq, 0) EXCEPT ![MAX_MESSAGES - 1] = message]]
    IN  IF stored.mc > 0 THEN ShowCurrent(stored) ELSE stored

\* Variant of add_message_to_queue: message_count++ moved after the if/else,
\* so that a full queue still counts the new entry
add_message_to_queue_CountsAlways(q, message) ==
    LET stored ==
            IF q.mc < MAX_MESSAGES
            THEN [q EXCEPT !.mq[q.mc] = message, !.mc = q.mc + 1]
            ELSE [q EXCEPT !.mq = [ShiftLoop(q.mq, 0) EXCEPT ![MAX_MESSAGES - 1] = message],
                           !.mc = q.mc + 1]
        latest == stored.mc - 1
        moved ==
            [stored EXCEPT !.ci = IF latest >= MAX_MESSAGES THEN MAX_MESSAGES - 1 ELSE latest]
    IN  IF moved.mc > 0 THEN ShowCurrent(moved) ELSE moved

\* void add_message_to_queue(const String &message)
add_message_to_queue(q, message) ==
    LET stored ==
            IF q.mc < MAX_MESSAGES
            THEN [q EXCEPT !.mq[q.mc] = message, !.mc = q.mc + 1]
            ELSE [q EXCEPT !.mq = [ShiftLoop(q.mq, 0) EXCEPT ![MAX_MESSAGES - 1] = message]]
        latest == stored.mc - 1
        moved ==
            [stored EXCEPT !.ci = IF latest >= MAX_MESSAGES THEN MAX_MESSAGES - 1 ELSE latest]
    IN  IF moved.mc > 0 THEN ShowCurrent(moved) ELSE moved

\* Variant of display_next_message: the upper bound of the cursor is not tested
display_next_message_NoClamp(q) ==
    IF q.mc > 0
    THEN ShowCurrent([q EXCEPT !.ci = q.ci + 1])
    ELSE q

\* void display_next_message()
display_next_message(q) ==
    IF q.mc > 0 /\ q.ci < q.mc - 1
    THEN ShowCurrent([q EXCEPT !.ci = q.ci + 1])
    ELSE q

\* Variant of display_previous_message: at index 0 the cursor wraps to the newest entry
display_previous_message_Wraps(q) ==
    IF q.mc > 0
    THEN ShowCurrent([q EXCEPT !.ci = IF q.ci > 0 THEN q.ci - 1 ELSE q.mc - 1])
    ELSE q

\* void display_previous_message()
display_previous_message(q) ==
    IF q.mc > 0 /\ q.ci > 0
    THEN ShowCurrent([q EXCEPT !.ci = q.ci - 1])
    ELSE q

\* ------------------------------------------------------------------------
\* Outbound frames (main.cpp:469-508)

\* Variant of send_ble_message: the test is < MAX_NOTIFICATION_SIZE, so a
\* frame of exactly that length is cut by one byte
send_ble_message_CutsAtLimit(connected, type, message, action) ==
    IF connected
    THEN LET json_string == serializeJson(type, message, action)
         IN  IF Len(json_string) < MAX_NOTIFICATION_SIZE
             THEN <<CStr(json_string)>>
             ELSE <<CStr(SubSeq(json_string, 1, MAX_NOTIFICATION_SIZE - 1))>>
    ELSE <<>>

\* void send_ble_message(type, message, action), with the value of
\* deviceConnected it reads; pTxCharacteristic is set by setup_ble and never
\* null afterwards. The result is the sequence of values passed to
\* setValue()/notify(): none or one.
send_ble_message(connected, type, message, action) ==
    IF connected
    THEN LET json_string == serializeJson(type, message, action)
         IN  IF Len(json_string) <= MAX_NOTIFICATION_SIZE
             THEN <<CStr(json_string)>>
             ELSE <<CStr(SubSeq(json_string, 1, MAX_NOTIFICATION_SIZE))>>
    ELSE <<>>

\* ------------------------------------------------------------------------
\* Inbound dispatch (main.cpp:104-143)

\* one branch of the dispatch: append, reply (or not), display_next_message
Dispatched(q, entry, reply) ==
    [q |-> display_next_message(add_message_to_queue(q, entry)), tx |-> reply]

onWrite_TestUnanswered(q, connected, value) ==
    LET received_data == CStr(value)
        parsed == deserializeJson(received_data)
        type == StringOr(parsed.doc, K_type)
        message == StringOr(parsed.doc, K_message)
    IN  IF Len(received_data) = 0 \/ parsed.error
        THEN [q |-> q, tx |-> <<>>]
        ELSE IF type = T_ai_request
        THEN Dispatched(q, PFX_Processing \o message,
                 send_ble_message(connected, T_ai_response,
                                  PFX_AIResponse \o message, A_processed))
        ELSE IF type = T_hello
        THEN Dispatched(q, PFX_Phone \o message,
                 send_ble_message(connected, T_welcome, TXT_HelloReadyToChat, A_ready))
        ELSE Dispatched(q, PFX_Phone \o message, <<>>)

\* void MyCallbacks::onWrite(BLECharacteristic *): the queue afterwards and
\* the notifications sent, for the written value and the value of
\* deviceConnected the sends read
onWrite(q, connected, value) ==
    LET received_data == CStr(value)
        parsed == deserializeJson(received_data)
        type == StringOr(parsed.doc, K_type)
        message == StringOr(parsed.doc, K_message)
    IN  IF Len(received_data) = 0 \/ parsed.error
        THEN [q |-> q, tx |-> <<>>]
        ELSE IF type = T_ai_request
        THEN Dispatched(q, PFX_Processing \o message,
                 send_ble_message(connected, T_ai_response,
                                  PFX_AIResponse \o message, A_processed))
        ELSE IF type = T_test
        THEN Dispatched(q, PFX_Phone \o message,
                 send_ble_message(connected, T_test_response, TXT_HelloFromEsp, A_ack))
        ELSE IF type = T_hello
        THEN Dispatched(q, PFX_Phone \o message,
                 send_ble_message(connected, T_welcome, TXT_HelloReadyToChat, A_ready))
        ELSE Dispatched(q, PFX_Phone \o message, <<>>)

\* void update_connection_status(): the text of connection_label
update_connection_status(connected) ==
    IF connected THEN "Connected" ELSE "Disconnected"

\* ------------------------------------------------------------------------
\* The mobile app (App.tsx): texts of the Conversation Log

\* initial messages (App.tsx:78-97)
M_Welcome1 ==
    <<"W", "e", "l", "c", "o", "m", "e", " ", "t", "o", " ", "y", "o", "u",
      "r", " ", "A", "I", " ", "C", "o", "m", "p", "a", "n", "i", "o", "n",
      "!", " ", "xF0", "x9F", "x91", "x8B">>

M_Welcome2 ==
    <<"T", "a", "p", " ", "\"", "C", "o", "n", "n", "e", "c", "t", "\"",
      " ", "t", "o", " ", "f", "i", "n", "d", " ", "a", "n", "d", " ", "c",
      "o", "n", "n", "e", "c", "t", " ", "t", "o", " ", "y", "o", "u", "r",
      " ", "E", "S", "P", "3", "2", " ", "d", "e", "v", "i", "c", "e", ".">>

M_Welcome3 ==
    <<"M", "a", "k", "e", " ", "s", "u", "r", "e", " ", "y", "o", "u", "r",
      " ", "E", "S", "P", "3", "2", " ", "i", "s", " ", "p", "o", "w", "e",
      "r", "e", "d", " ", "o", "n", " ", "a", "n", "d", " ", "n", "e", "a",
      "r", "b", "y", ".">>

\* scanForDevices (App.tsx:229-337)
M_Scanning ==
    <<"xF0", "x9F", "x94", "x8D", " ", "S", "c", "a", "n", "n", "i", "n",
      "g", " ", "f", "o", "r", " ", "E", "S", "P", "3", "2", " ", "d", "e",
      "v", "i", "c", "e", "s", ".", ".", ".">>

M_ScanningAll ==
    <<"xF0", "x9F", "x94", "x8D", " ", "S", "c", "a", "n", "n", "i", "n",
      "g", " ", "f", "o", "r", " ", "A", "L", "L", " ", "B", "L", "E", " ",
      "d", "e", "v", "i", "c", "e", "s", " ", "f", "i", "r", "s", "t", ".",
      ".", ".">>

M_BluetoothOff ==
    <<"P", "l", "e", "a", "s", "e", " ", "e", "n", "a", "b", "l", "e", " ",
      "B", "l", "u", "e", "t", "o", "o", "t", "h", " ", "t", "o", " ", "s",
      "c", "a", "n", " ", "f", "o", "r", " ", "d", "e", "v", "i", "c", "e",
      "s", ".">>

M_ScanFailed ==
    <<"xE2", "x9D", "x8C", " ", "S", "c", "a", "n", " ", "f", "a", "i",
      "l", "e", "d", ":", " ">>

M_Found ==
    <<"xF0", "x9F", "x8E", "xAF", " ", "F", "o", "u", "n", "d", " ", "E",
      "S", "P", "3", "2", " ", "d", "e", "v", "i", "c", "e", ":", " ">>

M_NoEspTargeted ==
    <<"xF0", "x9F", "x8E", "xAF", " ", "N", "o", " ", "E", "S", "P", "3",
      "2", " ", "f", "o", "u", "n", "d", ",", " ", "t", "r", "y", "i", "n",
      "g", " ", "t", "a", "r", "g", "e", "t", "e", "d", " ", "s", "c", "a",
      "n", ".", ".", ".">>

M_FoundTargeted ==
    <<"xF0", "x9F", "x8E", "xAF", " ", "F", "o", "u", "n", "d", " ", "E",
      "S", "P", "3", "2", " ", "i", "n", " ", "t", "a", "r", "g", "e", "t",
      "e", "d", " ", "s", "c", "a", "n", ":", " ">>

M_ScanTimeout ==
    <<"xE2", "x8F", "xB0", " ", "S", "c", "a", "n", " ", "t", "i", "m",
      "e", "o", "u", "t", ".", " ", "T", "r", "y", " ", "a", "g", "a", "i",
      "n", " ", "o", "r", " ", "c", "h", "e", "c", "k", " ", "i", "f", " ",
      "E", "S", "P", "3", "2", " ", "i", "s", " ", "p", "o", "w", "e", "r",
      "e", "d", " ", "o", "n", ".">>

M_FoundTotal1 ==
    <<"xF0", "x9F", "x93", "x8A", " ", "F", "o", "u", "n", "d", " ">>

M_FoundTotal2 ==
    <<" ", "B", "L", "E", " ", "d", "e", "v", "i", "c", "e", "s", " ", "t",
      "o", "t", "a", "l">>

M_Troubleshooting ==
    <<"xF0", "x9F", "x92", "xA1", " ", "T", "r", "o", "u", "b", "l", "e",
      "s", "h", "o", "o", "t", "i", "n", "g", ":", " ", "E", "n", "s", "u",
      "r", "e", " ", "E", "S", "P", "3", "2", " ", "i", "s", " ", "p", "o",
      "w", "e", "r", "e", "d", " ", "o", "n", " ", "a", "n", "d", " ", "n",
      "e", "a", "r", "b", "y">>

\* connectToDevice (App.tsx:340-399)
M_Connecting1 ==
    <<"xF0", "x9F", "x94", "x97", " ", "C", "o", "n", "n", "e", "c", "t",
      "i", "n", "g", " ", "t", "o", " ">>

M_Connecting2 ==
    <<".", ".", ".">>

M_Connected ==
    <<"xE2", "x9C", "x85", " ", "C", "o", "n", "n", "e", "c", "t", "e",
      "d", " ", "t", "o", " ">>

M_Services1 ==
    <<"xF0", "x9F", "x93", "x8B", " ", "S", "e", "r", "v", "i", "c", "e",
      "s", " ", "d", "i", "s", "c", "o", "v", "e", "r", "e", "d", " ", "(">>

M_Services2 ==
    <<" ", "t", "o", "t", "a", "l", ")">>

M_FailedConnect ==
    <<"xE2", "x9D", "x8C", " ", "F", "a", "i", "l", "e", "d", " ", "t",
      "o", " ", "c", "o", "n", "n", "e", "c", "t", ":", " ">>

\* setupNotifications (App.tsx:402-513)
M_ServiceNotFound ==
    <<"xE2", "x9D", "x8C", " ", "B", "L", "E", " ", "s", "e", "r", "v",
      "i", "c", "e", " ", "n", "o", "t", " ", "f", "o", "u", "n", "d">>

M_TxNotFound ==
    <<"xE2", "x9D", "x8C", " ", "T", "X", " ", "c", "h", "a", "r", "a",
      "c", "t", "e", "r", "i", "s", "t", "i", "c", " ", "n", "o", "t", " ",
      "f", "o", "u", "n", "d">>

M_Listening ==
    <<"xF0", "x9F", "x91", "x82", " ", "L", "i", "s", "t", "e", "n", "i",
      "n", "g", " ", "f", "o", "r", " ", "d", "e", "v", "i", "c", "e", " ",
      "m", "e", "s", "s", "a", "g", "e", "s">>

M_FailedNotifications ==
    <<"xE2", "x9D", "x8C", " ", "F", "a", "i", "l", "e", "d", " ", "t",
      "o", " ", "s", "e", "t", "u", "p", " ", "n", "o", "t", "i", "f", "i",
      "c", "a", "t", "i", "o", "n", "s", ":", " ">>

\* prefixes of the monitor callback (App.tsx:481-499)
P_Connected ==
    <<"xE2", "x9C", "x85", " ">>

P_AiResponse ==
    <<"xF0", "x9F", "xA4", "x96", " ">>

P_Welcome ==
    <<"xF0", "x9F", "x91", "x8B", " ">>

P_Device ==
    <<"xF0", "x9F", "x93", "xB1", " ">>

P_Button ==
    <<"xF0", "x9F", "x8E", "xAF", " ", "E", "S", "P", "3", "2", " ", "B",
      "u", "t", "t", "o", "n", " ", "P", "r", "e", "s", "s", ":", " ">>

\* sendBLEMessage (App.tsx:516-627)
M_NotConnected ==
    <<"xE2", "x9D", "x8C", " ", "N", "o", "t", " ", "c", "o", "n", "n",
      "e", "c", "t", "e", "d", " ", "t", "o", " ", "d", "e", "v", "i", "c",
      "e">>

M_ServiceNotFoundSend ==
    <<"xE2", "x9D", "x8C", " ", "B", "L", "E", " ", "s", "e", "r", "v",
      "i", "c", "e", " ", "n", "o", "t", " ", "f", "o", "u", "n", "d", " ",
      "f", "o", "r", " ", "s", "e", "n", "d", "i", "n", "g">>

M_RxNotFound ==
    <<"xE2", "x9D", "x8C", " ", "R", "X", " ", "c", "h", "a", "r", "a",
      "c", "t", "e", "r", "i", "s", "t", "i", "c", " ", "n", "o", "t", " ",
      "f", "o", "u", "n", "d">>

M_Sent ==
    <<"xF0", "x9F", "x93", "xA4", " ", "S", "e", "n", "t", ":", " ">>

M_FailedSend ==
    <<"xE2", "x9D", "x8C", " ", "F", "a", "i", "l", "e", "d", " ", "t",
      "o", " ", "s", "e", "n", "d", " ", "m", "e", "s", "s", "a", "g", "e",
      ":", " ">>

\* onDisconnected (App.tsx:133-148)
M_DeviceDisconnected ==
    <<"xF0", "x9F", "x93", "xB1", " ", "D", "e", "v", "i", "c", "e", " ",
      "d", "i", "s", "c", "o", "n", "n", "e", "c", "t", "e", "d">>

M_DisconnectionError ==
    <<"xE2", "x9D", "x8C", " ", "D", "i", "s", "c", "o", "n", "n", "e",
      "c", "t", "i", "o", "n", " ", "e", "r", "r", "o", "r", ":", " ">>

\* disconnectDevice (App.tsx:739-752)
M_DisconnectedFrom ==
    <<"xF0", "x9F", "x93", "xB1", " ", "D", "i", "s", "c", "o", "n", "n",
      "e", "c", "t", "e", "d", " ", "f", "r", "o", "m", " ">>

\* QR handlers (App.tsx:667-737)
M_QrScanned ==
    <<"xF0", "x9F", "x93", "xB1", " ", "Q", "R", " ", "C", "o", "d", "e",
      " ", "s", "c", "a", "n", "n", "e", "d", "!", " ", "F", "o", "u", "n",
      "d", " ", "E", "S", "P", "3", "2", " ", "w", "i", "t", "h", " ", "s",
      "e", "r", "v", "i", "c", "e", ":", " ">>

M_QrProcessed ==
    <<"xF0", "x9F", "x93", "x9D", " ", "Q", "R", " ", "C", "o", "d", "e",
      " ", "p", "r", "o", "c", "e", "s", "s", "e", "d", "!", " ", "F", "o",
      "u", "n", "d", " ", "E", "S", "P", "3", "2", " ", "w", "i", "t", "h",
      " ", "s", "e", "r", "v", "i", "c", "e", ":", " ">>

M_QrInvalidScan ==
    <<"xE2", "x9D", "x8C", " ", "I", "n", "v", "a", "l", "i", "d", " ",
      "Q", "R", " ", "c", "o", "d", "e", " ", "f", "o", "r", "m", "a", "t",
      ".", " ", "P", "l", "e", "a", "s", "e", " ", "s", "c", "a", "n", " ",
      "a", " ", "v", "a", "l", "i", "d", " ", "E", "S", "P", "3", "2", " ",
      "Q", "R", " ", "c", "o", "d", "e", ".">>

M_QrInvalidText ==
    <<"xE2", "x9D", "x8C", " ", "I", "n", "v", "a", "l", "i", "d", " ",
      "Q", "R", " ", "c", "o", "d", "e", " ", "f", "o", "r", "m", "a", "t",
      ".", " ", "P", "l", "e", "a", "s", "e", " ", "e", "n", "t", "e", "r",
      " ", "a", " ", "v", "a", "l", "i", "d", " ", "E", "S", "P", "3", "2",
      " ", "Q", "R", " ", "c", "o", "d", "e", ".">>

\* the advertised name (main.cpp:51, App.tsx:270)
DEVICE_NAME ==
    <<"A", "I", "-", "C", "o", "m", "p", "a", "n", "i", "o", "n">>

\* the message of an Error the library raises
TXT_error ==
    <<"e", "r", "r", "o", "r">>

\* ------------------------------------------------------------------------
\* The mobile app (App.tsx): state of the component and of its BLE library

\* bounds of the app's runs
MaxScans == 2
MaxDevices == 1
MaxTests == 1
MaxQr == 2
MaxNow == 1
MaxLost == 1

\* a name some other advertiser carries
OTHER_NAME == <<"T", "V">>

\* the UUIDs a QR code may carry: those of the peripheral's service
\* (main.cpp:45-47), those of some other service, or none that parse
QrInputs == {"device", "other", "invalid"}

\* const [messages, setMessages] = useState<Message[]>([...])
InitialMessages ==
    <<[id |-> <<"1">>, text |-> M_Welcome1, type |-> "ai", expanded |-> "undefined"],
      [id |-> <<"2">>, text |-> M_Welcome2, type |-> "ai", expanded |-> "undefined"],
      [id |-> <<"3">>, text |-> M_Welcome3, type |-> "ai", expanded |-> "undefined"]>>

\* !msg.expanded, for the optional member expanded of a Message
NotExpanded(expanded) == IF expanded = "true" THEN "false" ELSE "true"

\* Variant of toggleMessageExpansion: the id is not compared
toggleMessageExpansion_All(msgs, messageId) ==
    [n \in 1 .. Len(msgs) |-> [msgs[n] EXCEPT !.expanded = NotExpanded(@)]]

\* const toggleMessageExpansion = (messageId): the messages afterwards
toggleMessageExpansion(msgs, messageId) ==
    [n \in 1 .. Len(msgs) |->
        IF msgs[n].id = messageId
        THEN [msgs[n] EXCEPT !.expanded = NotExpanded(@)]
        ELSE msgs[n]]

\* the log and the id counter together, as a handler threads them
LogNow == [messages |-> messages, counter |-> messageIdCounter]

\* const addMessage = (text, type): the id is
\* `${Date.now()}-${messageIdCounter.current++}`
addMessage(log, text, type) ==
    [messages |-> Append(log.messages,
                         [id |-> DateNowText(now) \o <<"-">> \o Decimal(log.counter),
                          text |-> text, type |-> type, expanded |-> "undefined"]),
     counter |-> log.counter + 1]

\* the entry the QR handlers build themselves: the id is Date.now().toString()
qrMessage(log, text) ==
    [messages |-> Append(log.messages,
                         [id |-> DateNowText(now), text |-> text, type |-> "device",
                          expanded |-> "undefined"]),
     counter |-> log.counter]

SetLog(log) ==
    /\ messages' = log.messages
    /\ messageIdCounter' = log.counter

\* the scanner of the library: one scan at most, started by an attempt
ScannerOff == [mode |-> "off", by |-> 0]

\* bleManager.stopDeviceScan(); setIsScanning(false);
stopScan_Toggles(s) ==
    [scanner |-> ScannerOff, isScanning |-> ~s.isScanning]

stopScan(s) ==
    [scanner |-> ScannerOff, isScanning |-> FALSE]

ScanNow == [scanner |-> scanner, isScanning |-> isScanning]

\* what a render's functions see of the state (their closure)
Closure ==
    [isConnected |-> isConnected, connectedDevice |-> connectedDevice,
     dynamicUUIDs |-> dynamicUUIDs]

\* the link to the peripheral, as the library holds it
LinkIsUp == "phone" \in admitted

\* ------------------------------------------------------------------------
\* no frame is on its way
CodecIdle ==
    [stage |-> "idle", dir |-> "none",
     frame |-> [type |-> <<>>, message |-> <<>>, action |-> <<>>],
     json |-> <<>>, wire |-> <<>>,
     out |-> [ok |-> FALSE, type |-> <<>>, message |-> <<>>, action |-> <<>>]]

\* Initial state: the globals as initialised, after setup()

Init ==
    /\ message_queue = [i \in Slots |-> EmptyString]
    /\ message_count = 0
    /\ current_message_index = 0
    /\ label = LABEL_Initial
    /\ deviceConnected = FALSE
    /\ oldDeviceConnected = FALSE
    /\ connection_label = "Disconnected"
    /\ btn1_hidden = TRUE
    /\ loop_pc = "run"
    /\ advertising = TRUE
    /\ link = NoLink
    /\ rx_value = <<>>
    /\ tx = <<>>
    /\ ctx = [task \in Tasks |-> Idle]
    /\ oob = FALSE
    /\ appended = <<>>
    /\ lastOp = "none"
    /\ nConnects = 0
    /\ nWrites = 0
    /\ nClicks = 0
    /\ codec = CodecIdle
    /\ isConnected = FALSE
    /\ connectedDevice = "none"
    /\ isScanning = FALSE
    /\ dynamicUUIDs = "none"
    /\ messages = InitialMessages
    /\ messageIdCounter = 0
    /\ now = 0
    /\ scanner = ScannerOff
    /\ attempts = <<>>
    /\ calls = <<>>
    /\ sends = <<>>
    /\ disconnecting = "no"
    /\ monitoring = FALSE
    /\ inbox = <<>>
    /\ discEvent = "none"
    /\ nTests = 0
    /\ nQr = 0
    /\ nLost = 0

\* ------------------------------------------------------------------------
\* The queue on its own: any sequence of calls of its three operations,
\* each run to completion

QAdd(message) ==
    /\ Len(appended) < MaxAppends
    /\ SetHQ(add_message_to_queue(HQ, message))
    /\ appended' = Append(appended, message)
    /\ lastOp' = "add"
    /\ UNCHANGED <<connVars, stackVars, taskVars, countVars>>
    /\ UNCHANGED appVars

QNext ==
    /\ SetHQ(display_next_message(HQ))
    /\ lastOp' = "next"
    /\ UNCHANGED <<appended, connVars, stackVars, taskVars, countVars>>
    /\ UNCHANGED appVars

QPrevious ==
    /\ SetHQ(display_previous_message(HQ))
    /\ lastOp' = "previous"
    /\ UNCHANGED <<appended, connVars, stackVars, taskVars, countVars>>
    /\ UNCHANGED appVars

NextQueue ==
    \/ \E message \in QueueInputs : QAdd(message)
    \/ QNext
    \/ QPrevious

SpecQueue == Init /\ [][NextQueue]_vars

\* ------------------------------------------------------------------------
\* The BLE server callbacks (main.cpp:77-101), as results of one call

\* void MyServerCallbacks::onConnect(BLEServer *)
onConnect(q) ==
    [connected |-> TRUE,
     q |-> add_message_to_queue(q, MSG_PhoneConnected),
     tx |-> send_ble_message(TRUE, T_connected, TXT_EspReady, A_ready)]

\* Variant of onDisconnect: BLEDevice::startAdvertising() is left out
onDisconnect_NoAdvertising(q) ==
    [connected |-> FALSE,
     q |-> add_message_to_queue(q, MSG_PhoneDisconnected),
     advertising |-> advertising]

\* void MyServerCallbacks::onDisconnect(BLEServer *)
onDisconnect(q) ==
    [connected |-> FALSE,
     q |-> add_message_to_queue(q, MSG_PhoneDisconnected),
     advertising |-> TRUE]

\* ------------------------------------------------------------------------
\* The peripheral: events of the BLE stack and steps of the main loop.
\* A callback runs to completion in the stack's task; loop() runs in the
\* main task and is one step, except where it sleeps in delay(500).
\* The stack admits a central only while it advertises, and stops
\* advertising when it has admitted one.

\* a central connects: the stack admits it and calls onConnect
PeerConnect(p) ==
    /\ advertising
    /\ p \notin admitted
    /\ nConnects < MaxConnects
    /\ LET r == onConnect(HQ)
       IN  /\ deviceConnected' = r.connected
           /\ SetHQ(r.q)
           /\ tx' = r.tx
    /\ link' = (p :> DefaultMtu) @@ link
    /\ advertising' = FALSE
    /\ nConnects' = nConnects + 1
    /\ UNCHANGED <<oldDeviceConnected, connection_label, btn1_hidden, loop_pc,
                   rx_value, taskVars, histVars, nWrites, nClicks>>
    /\ UNCHANGED appVars

\* a central tries to connect while the peripheral does not advertise:
\* the peripheral never hears of it
PeerConnectRefused(p) ==
    /\ ~advertising
    /\ p \notin admitted
    /\ tx' = <<>>
    /\ UNCHANGED <<queueVars, connVars, advertising, link, rx_value, taskVars, histVars, countVars>>
    /\ UNCHANGED appVars

\* the ATT MTU exchange of a link (at most once per link)
MtuExchange(p, mtu) ==
    /\ p \in admitted
    /\ link[p] = DefaultMtu
    /\ link' = [link EXCEPT ![p] = mtu]
    /\ tx' = <<>>
    /\ UNCHANGED <<queueVars, connVars, advertising, rx_value, taskVars, histVars, countVars>>
    /\ UNCHANGED appVars

\* a link ends: the stack drops it and calls onDisconnect
PeerDisconnect(p) ==
    /\ p \in admitted
    /\ LET r == onDisconnect(HQ)
       IN  /\ deviceConnected' = r.connected
           /\ SetHQ(r.q)
           /\ advertising' = r.advertising
    /\ link' = [x \in admitted \ {p} |-> link[x]]
    /\ tx' = <<>>
    /\ UNCHANGED <<oldDeviceConnected, connection_label, btn1_hidden, loop_pc,
                   rx_value, taskVars, histVars, countVars>>
    /\ UNCHANGED appVars

\* an admitted central writes the RX characteristic: the stack calls onWrite
PeerWrite(p, value) ==
    /\ p \in admitted
    /\ nWrites < MaxWrites
    /\ rx_value' = value
    /\ LET r == onWrite(HQ, deviceConnected, value)
       IN  /\ SetHQ(r.q)
           /\ tx' = r.tx
    /\ nWrites' = nWrites + 1
    /\ UNCHANGED <<connVars, advertising, link, taskVars, histVars, nConnects, nClicks>>
    /\ UNCHANGED appVars

\* loop(), main.cpp:318-320: the disconnect edge is seen, delay(500) begins
LoopDisconnectEdge ==
    /\ loop_pc = "run"
    /\ ~deviceConnected /\ oldDeviceConnected
    /\ loop_pc' = "delay"
    /\ tx' = <<>>
    /\ UNCHANGED <<queueVars, deviceConnected, oldDeviceConnected, connection_label,
                   btn1_hidden, advertising, link, rx_value, taskVars, histVars, countVars>>
    /\ UNCHANGED appVars

\* loop(), main.cpp:321-326: after the delay, advertising is restarted and
\* the loop's view is brought up to date
LoopRestartAdvertising ==
    /\ loop_pc = "delay"
    /\ advertising' = TRUE
    /\ oldDeviceConnected' = deviceConnected
    /\ connection_label' = update_connection_status(deviceConnected)
    /\ btn1_hidden' = TRUE
    /\ loop_pc' = "run"
    /\ tx' = <<>>
    /\ UNCHANGED <<queueVars, deviceConnected, link, rx_value, taskVars, histVars, countVars>>
    /\ UNCHANGED appVars

\* loop(), main.cpp:330-338: the connect edge
LoopConnectEdge ==
    /\ loop_pc = "run"
    /\ deviceConnected /\ ~oldDeviceConnected
    /\ oldDeviceConnected' = deviceConnected
    /\ connection_label' = update_connection_status(deviceConnected)
    /\ btn1_hidden' = FALSE
    /\ SetHQ(display_next_message(add_message_to_queue(HQ, MSG_Ready)))
    /\ tx' = <<>>
    /\ UNCHANGED <<deviceConnected, loop_pc, advertising, link, rx_value,
                   taskVars, histVars, countVars>>
    /\ UNCHANGED appVars

\* loop(), main.cpp:341-344: the periodic refresh of the status label
LoopStatusRefresh ==
    /\ loop_pc = "run"
    /\ connection_label' = update_connection_status(deviceConnected)
    /\ tx' = <<>>
    /\ UNCHANGED <<queueVars, deviceConnected, oldDeviceConnected, btn1_hidden,
                   loop_pc, advertising, link, rx_value, taskVars, histVars, countVars>>
    /\ UNCHANGED appVars

\* static void btn1_event_handler(lv_event_t *e), for LV_EVENT_CLICKED:
\* the queue afterwards and the notifications sent
btn1_event_handler(q, connected) ==
    [q |-> display_next_message(add_message_to_queue(q, MSG_AskAI)),
     tx |-> IF connected
            THEN send_ble_message(connected, T_btn, TXT_AskAI, A_ask)
            ELSE <<>>]

\* the Ask AI button is clicked (lv_timer_handler in loop() delivers the
\* event; a hidden button receives none)
ButtonClick ==
    /\ loop_pc = "run"
    /\ ~btn1_hidden
    /\ nClicks < MaxClicks
    /\ LET r == btn1_event_handler(HQ, deviceConnected)
       IN  /\ SetHQ(r.q)
           /\ tx' = r.tx
    /\ nClicks' = nClicks + 1
    /\ UNCHANGED <<connVars, advertising, link, rx_value, taskVars, histVars, nConnects, nWrites>>
    /\ UNCHANGED appVars

Next ==
    \/ \E p \in Peers : PeerConnect(p)
    \/ \E p \in Peers : PeerConnectRefused(p)
    \/ \E p \in Peers, mtu \in ExchangedMtus : MtuExchange(p, mtu)
    \/ \E p \in Peers : PeerDisconnect(p)
    \/ \E p \in Peers, value \in RxInputs : PeerWrite(p, value)
    \/ LoopDisconnectEdge
    \/ LoopRestartAdvertising
    \/ LoopConnectEdge
    \/ LoopStatusRefresh
    \/ ButtonClick

Spec == Init /\ [][Next]_vars

\* ------------------------------------------------------------------------
\* The two tasks statement by statement. main.cpp takes no lock and uses no
\* queue between the callbacks and loop(): a callback of the stack's task
\* and a handler of the main task interleave at the level of their
\* statements. A call in progress is a list of pending operations (todo)
\* and the statement the first of them has reached (pc); i is the loop
\* variable of the shift loop. Once an index outside message_queue has been
\* used (oob) the behaviour of the program is undefined and the model
\* follows it no further.

AddOp(message) == [op |-> "add", message |-> message]
NextOp == [op |-> "next"]
SendOp(type, message, action) ==
    [op |-> "send", type |-> type, message |-> message, action |-> action]
SendIfConnectedOp(type, message, action) ==
    [op |-> "send_if", type |-> type, message |-> message, action |-> action]
AdvertiseOp == [op |-> "advertise"]

\* the first statement of an operation
FirstPc(op) ==
    CASE op.op = "add" -> "add_test"
      [] op.op = "next" -> "next_test"
      [] op.op = "send" -> "send"
      [] op.op = "send_if" -> "send_outer"
      [] op.op = "advertise" -> "advertise"

\* a task entering a call that has these operations to run
Calling(todo) ==
    IF todo = <<>>
    THEN Idle
    ELSE [pc |-> FirstPc(Head(todo)), todo |-> todo, i |-> 0]

\* the task after the operation at the head of its list has returned
Returned(task) == Calling(Tail(ctx[task].todo))

\* the task at another statement of the same operation
At(task, pc) == [ctx[task] EXCEPT !.pc = pc]

\* the operations MyCallbacks::onWrite runs for a written value (main.cpp:106-141)
onWriteOps(value) ==
    LET received_data == CStr(value)
        parsed == deserializeJson(received_data)
        type == StringOr(parsed.doc, K_type)
        message == StringOr(parsed.doc, K_message)
    IN  IF Len(received_data) = 0 \/ parsed.error
        THEN <<>>
        ELSE IF type = T_ai_request
        THEN <<AddOp(PFX_Processing \o message),
               SendOp(T_ai_response, PFX_AIResponse \o message, A_processed), NextOp>>
        ELSE IF type = T_test
        THEN <<AddOp(PFX_Phone \o message),
               SendOp(T_test_response, TXT_HelloFromEsp, A_ack), NextOp>>
        ELSE IF type = T_hello
        THEN <<AddOp(PFX_Phone \o message),
               SendOp(T_welcome, TXT_HelloReadyToChat, A_ready), NextOp>>
        ELSE <<AddOp(PFX_Phone \o message), NextOp>>

\* The statement-level specification follows one link of one central, which
\* writes a test frame, and enough clicks to fill the queue.
RacePeers == {"phone"}
RaceRxInputs == {RX_Test}
RaceMaxConnects == 1
RaceMaxWrites == 1
RaceMaxClicks == 7

\* the stack's task is free to deliver an event
BleFree == ctx["ble"].pc = "idle" /\ ~oob

\* the main task is at the top of loop()
MainFree == ctx["main"].pc = "idle" /\ loop_pc = "run" /\ ~oob

\* onConnect begins (main.cpp:79): deviceConnected = true
RaceConnect(p) ==
    /\ BleFree
    /\ advertising
    /\ p \notin admitted
    /\ nConnects < RaceMaxConnects
    /\ deviceConnected' = TRUE
    /\ ctx' = [ctx EXCEPT !["ble"] =
                  Calling(<<AddOp(MSG_PhoneConnected),
                            SendOp(T_connected, TXT_EspReady, A_ready)>>)]
    /\ link' = (p :> DefaultMtu) @@ link
    /\ advertising' = FALSE
    /\ nConnects' = nConnects + 1
    /\ tx' = <<>>
    /\ UNCHANGED <<queueVars, oldDeviceConnected, connection_label, btn1_hidden,
                   loop_pc, rx_value, oob, histVars, nWrites, nClicks>>
    /\ UNCHANGED appVars

\* onDisconnect begins (main.cpp:95): deviceConnected = false
RaceDisconnect(p) ==
    /\ BleFree
    /\ p \in admitted
    /\ deviceConnected' = FALSE
    /\ ctx' = [ctx EXCEPT !["ble"] =
                  Calling(<<AddOp(MSG_PhoneDisconnected), AdvertiseOp>>)]
    /\ link' = [x \in admitted \ {p} |-> link[x]]
    /\ tx' = <<>>
    /\ UNCHANGED <<queueVars, oldDeviceConnected, connection_label, btn1_hidden,
                   loop_pc, advertising, rx_value, oob, histVars, countVars>>
    /\ UNCHANGED appVars

\* onWrite begins (main.cpp:106-121): the value is read and parsed
RaceWrite(p, value) ==
    /\ BleFree
    /\ p \in admitted
    /\ nWrites < RaceMaxWrites
    /\ rx_value' = value
    /\ ctx' = [ctx EXCEPT !["ble"] = Calling(onWriteOps(value))]
    /\ nWrites' = nWrites + 1
    /\ tx' = <<>>
    /\ UNCHANGED <<queueVars, connVars, advertising, link, oob, histVars,
                   nConnects, nClicks>>
    /\ UNCHANGED appVars

\* loop(), main.cpp:318-320: the disconnect edge is seen, delay(500) begins
RaceLoopDisconnectEdge ==
    /\ MainFree
    /\ ~deviceConnected /\ oldDeviceConnected
    /\ loop_pc' = "delay"
    /\ tx' = <<>>
    /\ UNCHANGED <<queueVars, deviceConnected, oldDeviceConnected, connection_label,
                   btn1_hidden, advertising, link, rx_value, taskVars, histVars,
                   countVars>>
    /\ UNCHANGED appVars

\* loop(), main.cpp:321-326
RaceLoopRestartAdvertising ==
    /\ ~oob
    /\ LoopRestartAdvertising
    /\ UNCHANGED appVars

\* loop(), main.cpp:330-336: the connect edge, up to the call of
\* add_message_to_queue
RaceLoopConnectEdge ==
    /\ MainFree
    /\ deviceConnected /\ ~oldDeviceConnected
    /\ oldDeviceConnected' = deviceConnected
    /\ connection_label' = update_connection_status(deviceConnected)
    /\ btn1_hidden' = FALSE
    /\ ctx' = [ctx EXCEPT !["main"] = Calling(<<AddOp(MSG_Ready), NextOp>>)]
    /\ tx' = <<>>
    /\ UNCHANGED <<queueVars, deviceConnected, loop_pc, advertising, link, rx_value,
                   oob, histVars, countVars>>
    /\ UNCHANGED appVars

\* btn1_event_handler begins (main.cpp:151-155)
RaceButtonClick ==
    /\ MainFree
    /\ ~btn1_hidden
    /\ nClicks < RaceMaxClicks
    /\ ctx' = [ctx EXCEPT !["main"] =
                  Calling(<<AddOp(MSG_AskAI),
                            SendIfConnectedOp(T_btn, TXT_AskAI, A_ask), NextOp>>)]
    /\ nClicks' = nClicks + 1
    /\ tx' = <<>>
    /\ UNCHANGED <<queueVars, connVars, advertising, link, rx_value, oob, histVars,
                   nConnects, nWrites>>
    /\ UNCHANGED appVars

\* what a statement of the queue leaves alone
QueueStatementFrame ==
    /\ tx' = <<>>
    /\ UNCHANGED <<connVars, advertising, link, rx_value, histVars, countVars>>
    /\ UNCHANGED appVars

\* main.cpp:373: if (message_count < MAX_MESSAGES)
AddTest(task) ==
    /\ ~oob
    /\ ctx[task].pc = "add_test"
    /\ ctx' = [ctx EXCEPT ![task] =
                  IF message_count < MAX_MESSAGES
                  THEN At(task, "add_store")
                  ELSE [At(task, "add_shift") EXCEPT !.i = 0]]
    /\ QueueStatementFrame
    /\ UNCHANGED <<queueVars, oob>>

\* main.cpp:374: message_queue[message_count] = message
AddStore(task) ==
    /\ ~oob
    /\ ctx[task].pc = "add_store"
    /\ IF message_count \in Slots
       THEN /\ message_queue' =
                  [message_queue EXCEPT ![message_count] = Head(ctx[task].todo).message]
            /\ oob' = FALSE
       ELSE /\ oob' = TRUE
            /\ UNCHANGED message_queue
    /\ ctx' = [ctx EXCEPT ![task] = At(task, "add_count")]
    /\ QueueStatementFrame
    /\ UNCHANGED <<message_count, current_message_index, label>>

\* main.cpp:375: message_count++
AddCount(task) ==
    /\ ~oob
    /\ ctx[task].pc = "add_count"
    /\ message_count' = message_count + 1
    /\ ctx' = [ctx EXCEPT ![task] = At(task, "add_cursor")]
    /\ QueueStatementFrame
    /\ UNCHANGED <<message_queue, current_message_index, label, oob>>

\* main.cpp:378-380: one turn of the shift loop
AddShift(task) ==
    /\ ~oob
    /\ ctx[task].pc = "add_shift"
    /\ LET i == ctx[task].i
       IN  IF i < MAX_MESSAGES - 1
           THEN /\ message_queue' = [message_queue EXCEPT ![i] = message_queue[i + 1]]
                /\ ctx' = [ctx EXCEPT ![task].i = i + 1]
           ELSE /\ ctx' = [ctx EXCEPT ![task] = At(task, "add_last")]
                /\ UNCHANGED message_queue
    /\ QueueStatementFrame
    /\ UNCHANGED <<message_count, current_message_index, label, oob>>

\* main.cpp:381: message_queue[MAX_MESSAGES - 1] = message
AddLast(task) ==
    /\ ~oob
    /\ ctx[task].pc = "add_last"
    /\ message_queue' =
           [message_queue EXCEPT ![MAX_MESSAGES - 1] = Head(ctx[task].todo).message]
    /\ ctx' = [ctx EXCEPT ![task] = At(task, "add_cursor")]
    /\ QueueStatementFrame
    /\ UNCHANGED <<message_count, current_message_index, label, oob>>

\* main.cpp:385-388: current_message_index = message_count - 1, clamped
AddCursor(task) ==
    /\ ~oob
    /\ ctx[task].pc = "add_cursor"
    /\ current_message_index' =
           IF message_count - 1 >= MAX_MESSAGES
           THEN MAX_MESSAGES - 1
           ELSE message_count - 1
    /\ ctx' = [ctx EXCEPT ![task] = At(task, "add_show")]
    /\ QueueStatementFrame
    /\ UNCHANGED <<message_queue, message_count, label, oob>>

\* lv_label_set_text(current_message_label,
\*                   message_queue[current_message_index].c_str())
ShowStatement ==
    IF current_message_index \in Slots
    THEN /\ label' = message_queue[current_message_index]
         /\ oob' = FALSE
    ELSE /\ oob' = TRUE
         /\ UNCHANGED label

\* main.cpp:391-394: the entry under the cursor is read for display
AddShow(task) ==
    /\ ~oob
    /\ ctx[task].pc = "add_show"
    /\ IF message_count > 0 THEN ShowStatement ELSE UNCHANGED <<label, oob>>
    /\ ctx' = [ctx EXCEPT ![task] = Returned(task)]
    /\ QueueStatementFrame
    /\ UNCHANGED <<message_queue, message_count, current_message_index>>

\* main.cpp:400-401: the test of display_next_message and the move
NextMove(task) ==
    /\ ~oob
    /\ ctx[task].pc = "next_test"
    /\ IF message_count > 0 /\ current_message_index < message_count - 1
       THEN /\ current_message_index' = current_message_index + 1
            /\ ctx' = [ctx EXCEPT ![task] = At(task, "next_show")]
       ELSE /\ ctx' = [ctx EXCEPT ![task] = Returned(task)]
            /\ UNCHANGED current_message_index
    /\ QueueStatementFrame
    /\ UNCHANGED <<message_queue, message_count, label, oob>>

\* main.cpp:402-403: the entry under the cursor is read for display
NextShow(task) ==
    /\ ~oob
    /\ ctx[task].pc = "next_show"
    /\ ShowStatement
    /\ ctx' = [ctx EXCEPT ![task] = Returned(task)]
    /\ QueueStatementFrame
    /\ UNCHANGED <<message_queue, message_count, current_message_index>>

\* The frame of the statements of a send that transmit nothing
SendStatementFrame ==
    /\ tx' = <<>>
    /\ UNCHANGED <<queueVars, connVars, advertising, link, rx_value, oob, histVars,
                   countVars>>
    /\ UNCHANGED appVars

\* main.cpp:157: if (deviceConnected), around the button's send
SendOuterTest(task) ==
    /\ ~oob
    /\ ctx[task].pc = "send_outer"
    /\ ctx' = [ctx EXCEPT ![task] =
                  IF deviceConnected THEN At(task, "send") ELSE Returned(task)]
    /\ SendStatementFrame

\* main.cpp:471: if (deviceConnected && pTxCharacteristic != nullptr)
SendTest(task) ==
    /\ ~oob
    /\ ctx[task].pc = "send"
    /\ ctx' = [ctx EXCEPT ![task] =
                  IF deviceConnected THEN At(task, "send_notify") ELSE Returned(task)]
    /\ SendStatementFrame

\* main.cpp:472-503: the frame is encoded and handed to notify()
SendNotify(task) ==
    /\ ~oob
    /\ ctx[task].pc = "send_notify"
    /\ LET op == Head(ctx[task].todo)
       IN  tx' = send_ble_message(TRUE, op.type, op.message, op.action)
    /\ ctx' = [ctx EXCEPT ![task] = Returned(task)]
    /\ UNCHANGED <<queueVars, connVars, advertising, link, rx_value, oob, histVars,
                   countVars>>
    /\ UNCHANGED appVars

\* main.cpp:99: BLEDevice::startAdvertising()
AdvertiseStatement(task) ==
    /\ ~oob
    /\ ctx[task].pc = "advertise"
    /\ advertising' = TRUE
    /\ ctx' = [ctx EXCEPT ![task] = Returned(task)]
    /\ tx' = <<>>
    /\ UNCHANGED <<queueVars, connVars, link, rx_value, oob, histVars, countVars>>
    /\ UNCHANGED appVars

NextRace ==
    \/ \E p \in RacePeers : RaceConnect(p)
    \/ \E p \in RacePeers : RaceDisconnect(p)
    \/ \E p \in RacePeers, value \in RaceRxInputs : RaceWrite(p, value)
    \/ RaceLoopDisconnectEdge
    \/ RaceLoopRestartAdvertising
    \/ RaceLoopConnectEdge
    \/ RaceButtonClick
    \/ \E task \in Tasks : AddTest(task)
    \/ \E task \in Tasks : AddStore(task)
    \/ \E task \in Tasks : AddCount(task)
    \/ \E task \in Tasks : AddShift(task)
    \/ \E task \in Tasks : AddLast(task)
    \/ \E task \in Tasks : AddCursor(task)
    \/ \E task \in Tasks : AddShow(task)
    \/ \E task \in Tasks : NextMove(task)
    \/ \E task \in Tasks : NextShow(task)
    \/ \E task \in Tasks : SendOuterTest(task)
    \/ \E task \in Tasks : SendTest(task)
    \/ \E task \in Tasks : SendNotify(task)
    \/ \E task \in Tasks : AdvertiseStatement(task)

SpecRace == Init /\ [][NextRace]_vars

\* ------------------------------------------------------------------------
\* Claims about the queue on its own (SpecQueue)

\* C1: after any sequence of add_message_to_queue, display_next_message and
\* display_previous_message calls, each run to completion, message_count
\* never exceeds MAX_MESSAGES.
C1_CountBounded ==
    message_count <= MAX_MESSAGES

\* an append has found the queue full
C1_Witness ==
    /\ Len(appended) > MAX_MESSAGES
    /\ message_count = MAX_MESSAGES
    /\ lastOp = "add"

\* C2: after more than MAX_MESSAGES appends the queue holds exactly the last
\* MAX_MESSAGES appended strings in append order (slot 0 the oldest), and
\* right after an append the cursor is on the last slot.
C2_LastTenInOrder ==
    Len(appended) > MAX_MESSAGES =>
        /\ message_count = MAX_MESSAGES
        /\ \A i \in Slots :
               message_queue[i] = appended[Len(appended) - MAX_MESSAGES + i + 1]
        /\ lastOp = "add" => current_message_index = MAX_MESSAGES - 1

\* two entries have been evicted and the queue holds both input strings
C2_Witness ==
    /\ Len(appended) = MAX_MESSAGES + 2
    /\ lastOp = "add"
    /\ appended[1] # appended[2]
    /\ message_queue[0] # message_queue[MAX_MESSAGES - 1]

\* C3: whenever message_count > 0 the cursor is a valid index,
\* 0 <= current_message_index <= message_count - 1.
C3_CursorValid ==
    message_count > 0 =>
        /\ 0 <= current_message_index
        /\ current_message_index <= message_count - 1

\* the cursor has been walked back to the oldest entry of a full queue
C3_Witness ==
    /\ message_count = MAX_MESSAGES
    /\ current_message_index = 0
    /\ lastOp = "previous"

\* C4: display_previous_message at index 0 and display_next_message at the
\* last index (or on an empty queue) change nothing; away from the bounds
\* each moves the cursor by exactly 1, shows the entry under the cursor and
\* leaves message_count and the queue contents as they are.
C4_Step ==
    /\ (lastOp' = "previous" /\ current_message_index = 0) =>
           UNCHANGED queueVars
    /\ (lastOp' = "next" /\ current_message_index = message_count - 1) =>
           UNCHANGED queueVars
    /\ (lastOp' \in {"next", "previous"} /\ message_count = 0) =>
           UNCHANGED queueVars
    /\ (lastOp' = "previous" /\ message_count > 0 /\ current_message_index > 0) =>
           /\ current_message_index' = current_message_index - 1
           /\ label' = message_queue[current_message_index - 1]
           /\ UNCHANGED <<message_queue, message_count>>
    /\ (lastOp' = "next" /\ message_count > 0
            /\ current_message_index < message_count - 1) =>
           /\ current_message_index' = current_message_index + 1
           /\ label' = message_queue[current_message_index + 1]
           /\ UNCHANGED <<message_queue, message_count>>

C4_CursorClamping ==
    [][C4_Step]_vars

\* display_previous_message has run on a queue of one entry, whose cursor
\* can only have been at index 0
C4_Witness ==
    /\ message_count = 1
    /\ current_message_index = 0
    /\ lastOp = "previous"

\* ------------------------------------------------------------------------
\* One frame through the send path of one side and the receive path of the
\* other. "up" is sendBLEMessage -> onWrite, "down" is send_ble_message ->
\* the monitor callback of setupNotifications. The link carries a value
\* whole (its ATT MTU is not the subject here).

\* length of the long message among the inputs
LongLen == 100

LongMessage == [n \in 1 .. LongLen |-> "m"]

\* the message length with which a welcome frame of the peripheral has
\* exactly MAX_NOTIFICATION_SIZE bytes
EdgeLen == 152

EdgeMessage == [n \in 1 .. EdgeLen |-> "m"]

OverEdgeMessage == [n \in 1 .. EdgeLen + 1 |-> "m"]

CodecTypes == {T_hello, T_test, T_ai_response, T_welcome}

CodecMessages ==
    {<<>>, TXT_HelloFromApp, MSG_PhoneConnected,
     <<"a", "\"", "b", "\\", "c", "\n">>, LongMessage, EdgeMessage,
     OverEdgeMessage}

CodecActions == {<<>>, A_ready, A_test_message}

everythingButCodec ==
    <<queueVars, connVars, stackVars, taskVars, histVars, countVars, centralVars>>

\* a frame is handed to a sender
CodecChoose(dir, type, message, action) ==
    /\ codec.stage = "idle"
    /\ codec' = [CodecIdle EXCEPT
                    !.stage = "chosen", !.dir = dir,
                    !.frame = [type |-> type, message |-> message, action |-> action]]
    /\ UNCHANGED everythingButCodec

\* the sender encodes: JSON.stringify(messageData) (App.tsx:529-536) or
\* serializeJson(doc, json_string) (main.cpp:472-478)
CodecEncode ==
    /\ codec.stage = "chosen"
    /\ codec' = [codec EXCEPT
                    !.stage = "encoded",
                    !.json = IF codec.dir = "up"
                             THEN JSON_stringify(codec.frame.type, codec.frame.message,
                                                 codec.frame.action, DateNowText(0))
                             ELSE serializeJson(codec.frame.type, codec.frame.message,
                                                codec.frame.action)]
    /\ UNCHANGED everythingButCodec

\* the sender hands the frame to its stack and the value arrives: up, the
\* stack writes the bytes of finalMessage (App.tsx:603-610); down, the
\* notification of send_ble_message reaches the monitor as base64 text
CodecTransmit ==
    /\ codec.stage = "encoded"
    /\ codec' = [codec EXCEPT
                    !.stage = "sent",
                    !.wire = IF codec.dir = "up"
                             THEN fromBase64(finalMessage(codec.json))
                             ELSE toBase64(send_ble_message(TRUE, codec.frame.type,
                                               codec.frame.message, codec.frame.action)[1])]
    /\ UNCHANGED everythingButCodec

\* what the peripheral reads of a written value (main.cpp:106-121)
DecodeUp(value) ==
    LET received_data == CStr(value)
        parsed == deserializeJson(received_data)
    IN  [ok |-> Len(received_data) > 0 /\ ~parsed.error,
         type |-> StringOr(parsed.doc, K_type),
         message |-> StringOr(parsed.doc, K_message),
         action |-> StringOr(parsed.doc, K_action)]

\* what the central reads of a notification (App.tsx:465-477)
DecodeDown(value) ==
    LET decodedValue == Utf8Decode(fromBase64(value))
        jsonData == JSON_parse(decodedValue)
    IN  [ok |-> ~jsonData.error,
         type |-> StringOr(jsonData.doc, K_type),
         message |-> StringOr(jsonData.doc, K_message),
         action |-> StringOr(jsonData.doc, K_action)]

\* the receiver decodes
CodecDecode ==
    /\ codec.stage = "sent"
    /\ codec' = [codec EXCEPT
                    !.stage = "decoded",
                    !.out = IF codec.dir = "up"
                            THEN DecodeUp(codec.wire)
                            ELSE DecodeDown(codec.wire)]
    /\ UNCHANGED everythingButCodec

CodecDone ==
    /\ codec.stage = "decoded"
    /\ codec' = CodecIdle
    /\ UNCHANGED everythingButCodec

NextCodec ==
    \/ \E dir \in {"up", "down"}, type \in CodecTypes,
          message \in CodecMessages, action \in CodecActions :
           CodecChoose(dir, type, message, action)
    \/ CodecEncode
    \/ CodecTransmit
    \/ CodecDecode
    \/ CodecDone

SpecCodec == Init /\ [][NextCodec]_vars

\* ------------------------------------------------------------------------
\* The mobile app with the peripheral's BLE callbacks at the other end of
\* the link. A handler of the app runs to completion up to its next await;
\* what follows the await is a later step. The functions a handler calls
\* are those of the render in which the user's press started it, so they
\* read the state of that render (its closure), not the current state.
\* The peripheral's loop() is left to Spec.

uiVars == <<isConnected, connectedDevice, isScanning, dynamicUUIDs>>
logVars == <<messages, messageIdCounter>>
scanVars == <<scanner, attempts>>
asyncVars == <<calls, sends, disconnecting>>
rxVars == <<monitoring, inbox, discEvent>>
envVars == <<now, nTests, nQr, nLost>>

\* the peripheral hears nothing of this step
PeripheralIdle ==
    /\ tx' = <<>>
    /\ UNCHANGED <<queueVars, connVars, advertising, link, rx_value,
                   taskVars, histVars, countVars, codec>>

\* the stack admits the app's link and calls onConnect
PeripheralAdmits ==
    /\ \E r \in {onConnect(HQ)} :
           /\ deviceConnected' = r.connected
           /\ SetHQ(r.q)
           /\ tx' = r.tx
    /\ link' = ("phone" :> DefaultMtu) @@ link
    /\ advertising' = FALSE
    /\ nConnects' = nConnects + 1
    /\ UNCHANGED <<oldDeviceConnected, connection_label, btn1_hidden, loop_pc,
                   rx_value, taskVars, histVars, nWrites, nClicks, codec>>

\* the stack drops the app's link and calls onDisconnect
PeripheralDrops ==
    /\ \E r \in {onDisconnect(HQ)} :
           /\ deviceConnected' = r.connected
           /\ SetHQ(r.q)
           /\ advertising' = r.advertising
    /\ link' = [x \in admitted \ {"phone"} |-> link[x]]
    /\ tx' = <<>>
    /\ UNCHANGED <<oldDeviceConnected, connection_label, btn1_hidden, loop_pc,
                   rx_value, taskVars, histVars, countVars, codec>>

\* the notifications of a step reach the monitor of the app, as base64
\* text, when it has subscribed
Notified(frames) ==
    IF monitoring
    THEN inbox \o [n \in 1 .. Len(frames) |-> toBase64(frames[n])]
    ELSE inbox

\* the stack takes a written value and calls onWrite
PeripheralTakes(value) ==
    /\ rx_value' = value
    /\ \E r \in {onWrite(HQ, deviceConnected, value)} :
           /\ SetHQ(r.q)
           /\ tx' = r.tx
           /\ inbox' = Notified(r.tx)
    /\ nWrites' = nWrites + 1
    /\ UNCHANGED <<connVars, advertising, link, taskVars, histVars,
                   nConnects, nClicks, codec>>

\* const connectToDevice = async (device) => {...}, up to device.connect()
connectToDevice(k, log) ==
    /\ LET s == stopScan(ScanNow)
       IN  /\ scanner' = s.scanner
           /\ isScanning' = s.isScanning
    /\ SetLog(addMessage(log, M_Connecting1 \o DEVICE_NAME \o M_Connecting2, "ai"))
    /\ calls' = Append(calls, [by |-> k, pc |-> "connect", notify |-> "none",
                               failedAt |-> "none"])

\* Variant of sendBLEMessage: the guard on the connection is left out
sendBLEMessage_Unguarded(cap, log, type, message, action) ==
    /\ SetLog(log)
    /\ sends' = Append(sends,
                   [message |-> message,
                    jsonString |-> JSON_stringify(type, message, action,
                                                  DateNowText(now)),
                    rxUUID |-> cap.dynamicUUIDs,
                    pc |-> "lookup", tries |-> <<>>, sent |-> 0, failed |-> 0])

\* const sendBLEMessage = async (type, message, action) => {...}, up to its
\* first await, with the closure it reads
sendBLEMessage(cap, log, type, message, action) ==
    IF cap.connectedDevice = "none" \/ ~cap.isConnected
    THEN /\ SetLog(addMessage(log, M_NotConnected, "ai"))
         /\ UNCHANGED sends
    ELSE /\ SetLog(log)
         /\ sends' = Append(sends,
                        [message |-> message,
                         jsonString |-> JSON_stringify(type, message, action,
                                                       DateNowText(now)),
                         rxUUID |-> cap.dynamicUUIDs,
                         pc |-> "lookup", tries |-> <<>>, sent |-> 0, failed |-> 0])

\* the user presses Connect while not connected: handleConnection calls
\* scanForDevices, which starts the broad scan and arms its two timers
scanForDevices ==
    /\ ~isConnected
    /\ ~isScanning
    /\ Len(attempts) < MaxScans
    /\ isScanning' = TRUE
    /\ SetLog(addMessage(addMessage(LogNow, M_Scanning, "ai"), M_ScanningAll, "ai"))
    /\ scanner' = [mode |-> "broad", by |-> Len(attempts) + 1]
    /\ attempts' = Append(attempts,
                       [foundEsp32 |-> FALSE, deviceCount |-> 0,
                        t8 |-> "armed", t500 |-> "off", t18 |-> "armed",
                        timeoutNotes |-> 0, cap |-> Closure])
    /\ UNCHANGED <<isConnected, connectedDevice, dynamicUUIDs, asyncVars, rxVars, envVars>>
    /\ PeripheralIdle

\* the callback of the broad scan is called with a device
BroadCallback(k, name) ==
    /\ scanner = [mode |-> "broad", by |-> k]
    /\ name = DEVICE_NAME => advertising
    /\ name # DEVICE_NAME => attempts[k].deviceCount < MaxDevices
    /\ IF name = DEVICE_NAME
       THEN /\ attempts' = [attempts EXCEPT ![k].deviceCount = @ + 1,
                                            ![k].foundEsp32 = TRUE]
            /\ connectToDevice(k, addMessage(LogNow, M_Found \o name, "ai"))
       ELSE /\ attempts' = [attempts EXCEPT ![k].deviceCount = @ + 1]
            /\ UNCHANGED <<scanner, isScanning, logVars, calls>>
    /\ UNCHANGED <<isConnected, connectedDevice, dynamicUUIDs, sends,
                   disconnecting, rxVars, envVars>>
    /\ PeripheralIdle

\* the callback of the broad scan is called with an error: the scan is over
BroadError(k) ==
    /\ scanner = [mode |-> "broad", by |-> k]
    /\ SetLog(addMessage(LogNow, M_ScanFailed \o TXT_error, "ai"))
    /\ isScanning' = FALSE
    /\ scanner' = ScannerOff
    /\ UNCHANGED <<isConnected, connectedDevice, dynamicUUIDs, attempts,
                   asyncVars, rxVars, envVars>>
    /\ PeripheralIdle

\* Variant of Timer8: the targeted phase is entered whatever the broad
\* phase found
Timer8_Always(k) ==
    /\ k \in 1 .. Len(attempts)
    /\ attempts[k].t8 = "armed"
    /\ \A j \in 1 .. (k - 1) : attempts[j].t8 = "fired"
    /\ SetLog(addMessage(LogNow, M_NoEspTargeted, "ai"))
    /\ scanner' = ScannerOff
    /\ attempts' = [attempts EXCEPT ![k].t8 = "fired", ![k].t500 = "armed"]
    /\ UNCHANGED <<uiVars, asyncVars, rxVars, envVars>>
    /\ PeripheralIdle

\* the timer of 8000 ms of attempt k fires
Timer8(k) ==
    /\ k \in 1 .. Len(attempts)
    /\ attempts[k].t8 = "armed"
    /\ \A j \in 1 .. (k - 1) : attempts[j].t8 = "fired"
    /\ IF ~attempts[k].foundEsp32
       THEN /\ SetLog(addMessage(LogNow, M_NoEspTargeted, "ai"))
            /\ scanner' = ScannerOff
            /\ attempts' = [attempts EXCEPT ![k].t8 = "fired", ![k].t500 = "armed"]
       ELSE /\ attempts' = [attempts EXCEPT ![k].t8 = "fired"]
            /\ UNCHANGED <<logVars, scanner>>
    /\ UNCHANGED <<uiVars, asyncVars, rxVars, envVars>>
    /\ PeripheralIdle

\* the timer of 500 ms set by the 8000 ms timer fires: the targeted scan
Timer500(k) ==
    /\ k \in 1 .. Len(attempts)
    /\ attempts[k].t500 = "armed"
    /\ scanner' = [mode |-> "targeted", by |-> k]
    /\ attempts' = [attempts EXCEPT ![k].t500 = "fired"]
    /\ UNCHANGED <<uiVars, logVars, asyncVars, rxVars, envVars>>
    /\ PeripheralIdle

\* the callback of the targeted scan is called with the peripheral
TargetedCallback(k) ==
    /\ scanner = [mode |-> "targeted", by |-> k]
    /\ advertising
    /\ connectToDevice(k, addMessage(LogNow, M_FoundTargeted \o DEVICE_NAME, "ai"))
    /\ UNCHANGED <<isConnected, connectedDevice, dynamicUUIDs, attempts, sends,
                   disconnecting, rxVars, envVars>>
    /\ PeripheralIdle

\* the three entries of a scan timeout
TimeoutNotes(log, deviceCount) ==
    addMessage(
        addMessage(
            addMessage(log, M_ScanTimeout, "ai"),
            M_FoundTotal1 \o Decimal(deviceCount) \o M_FoundTotal2, "ai"),
        M_Troubleshooting, "ai")

\* the timer of 18000 ms of attempt k fires. The entries are counted for
\* the scan the user started last.
Timer18(k) ==
    /\ k \in 1 .. Len(attempts)
    /\ attempts[k].t18 = "armed"
    /\ attempts[k].t8 = "fired"
    /\ attempts[k].t500 # "armed"
    /\ \A j \in 1 .. (k - 1) : attempts[j].t18 = "fired"
    /\ LET s == stopScan(ScanNow)
       IN  /\ scanner' = s.scanner
           /\ isScanning' = s.isScanning
    /\ IF ~attempts[k].cap.isConnected
       THEN /\ SetLog(TimeoutNotes(LogNow, attempts[k].deviceCount))
            /\ attempts' = [attempts EXCEPT ![k].t18 = "fired",
                                            ![Len(attempts)].timeoutNotes = @ + 1]
       ELSE /\ attempts' = [attempts EXCEPT ![k].t18 = "fired"]
            /\ UNCHANGED logVars
    /\ UNCHANGED <<isConnected, connectedDevice, dynamicUUIDs, asyncVars, rxVars, envVars>>
    /\ PeripheralIdle

\* the catch block of connectToDevice
ConnectFailed(c, step) ==
    /\ SetLog(addMessage(LogNow, M_FailedConnect \o TXT_error, "ai"))
    /\ isConnected' = FALSE
    /\ connectedDevice' = "none"
    /\ calls' = [calls EXCEPT ![c].pc = "failed", ![c].failedAt = step]

\* device.connect() resolves: the peripheral has admitted the link
ConnectResolve(c) ==
    /\ c \in 1 .. Len(calls)
    /\ calls[c].pc = "connect"
    /\ advertising
    /\ ~LinkIsUp
    /\ PeripheralAdmits
    /\ connectedDevice' = "device"
    /\ isConnected' = TRUE
    /\ SetLog(addMessage(LogNow, M_Connected \o DEVICE_NAME, "ai"))
    /\ calls' = [calls EXCEPT ![c].pc = "setup"]
    /\ UNCHANGED <<isScanning, dynamicUUIDs, scanVars, sends, disconnecting,
                   rxVars, envVars>>

\* device.connect() rejects
ConnectReject(c) ==
    /\ c \in 1 .. Len(calls)
    /\ calls[c].pc = "connect"
    /\ ConnectFailed(c, "connect")
    /\ UNCHANGED <<isScanning, dynamicUUIDs, scanVars, sends, disconnecting,
                   rxVars, envVars>>
    /\ PeripheralIdle

\* after the delay: requestMTU(256), discoverAllServicesAndCharacteristics()
\* and services() resolve; setupNotifications is started and not awaited;
\* sendBLEMessage('hello', ...) is called
SetupResolve(c, mtu) ==
    /\ c \in 1 .. Len(calls)
    /\ calls[c].pc = "setup"
    /\ LinkIsUp
    /\ link' = [link EXCEPT !["phone"] = IF @ = DefaultMtu THEN mtu ELSE @]
    /\ calls' = [calls EXCEPT ![c].pc = "done", ![c].notify = "pending"]
    /\ sendBLEMessage(attempts[calls[c].by].cap,
                      addMessage(LogNow, M_Services1 \o <<"3">> \o M_Services2, "ai"),
                      T_hello, TXT_ConnectedFromApp, A_connection_established)
    /\ tx' = <<>>
    /\ UNCHANGED <<uiVars, scanVars, disconnecting, rxVars, envVars>>
    /\ UNCHANGED <<queueVars, connVars, advertising, rx_value,
                   taskVars, histVars, countVars, codec>>

\* one of the awaits between connect() and services() rejects
SetupReject(c) ==
    /\ c \in 1 .. Len(calls)
    /\ calls[c].pc = "setup"
    /\ ConnectFailed(c, "setup")
    /\ UNCHANGED <<isScanning, dynamicUUIDs, scanVars, sends, disconnecting,
                   rxVars, envVars>>
    /\ PeripheralIdle

\* the UUIDs a closure looks for are those of the peripheral
UuidsMatch(cap) == cap.dynamicUUIDs \in {"none", "device"}

\* setupNotifications after its await: the service and the TX
\* characteristic are looked up and monitored, or the function returns with
\* an entry in the log
NotifySetup(c, outcome) ==
    /\ c \in 1 .. Len(calls)
    /\ calls[c].notify = "pending"
    /\ outcome = "listening" => (LinkIsUp /\ UuidsMatch(attempts[calls[c].by].cap))
    /\ outcome = "not_found" => ~UuidsMatch(attempts[calls[c].by].cap)
    /\ outcome = "error" => ~LinkIsUp
    /\ monitoring' = (monitoring \/ outcome = "listening")
    /\ SetLog(addMessage(LogNow,
                         CASE outcome = "listening" -> M_Listening
                           [] outcome = "not_found" -> M_ServiceNotFound
                           [] outcome = "error" -> M_FailedNotifications \o TXT_error,
                         "ai"))
    /\ calls' = [calls EXCEPT ![c].notify = outcome]
    /\ UNCHANGED <<uiVars, scanVars, sends, disconnecting, inbox, discEvent, envVars>>
    /\ PeripheralIdle

\* the user presses Test while connected: sendTestMessage
sendTestMessage ==
    /\ isConnected
    /\ nTests < MaxTests
    /\ nTests' = nTests + 1
    /\ sendBLEMessage(Closure, LogNow, T_test, TXT_HelloFromApp, A_test_message)
    /\ UNCHANGED <<uiVars, scanVars, calls, disconnecting, rxVars, now, nQr, nLost>>
    /\ PeripheralIdle

\* the bytes the stack writes for a send
Written(send) == fromBase64(finalMessage(send.jsonString))

\* sendBLEMessage after its first await: services() and characteristics()
\* resolve and the RX characteristic is looked up
SendLookup(s, outcome) ==
    /\ s \in 1 .. Len(sends)
    /\ sends[s].pc = "lookup"
    /\ outcome = "found" => sends[s].rxUUID \in {"none", "device"}
    /\ outcome = "not_found" => sends[s].rxUUID = "other"
    /\ outcome = "throw" => ~LinkIsUp
    /\ CASE outcome = "found" ->
              /\ sends' = [sends EXCEPT ![s].pc = "first"]
              /\ UNCHANGED logVars
         [] outcome = "not_found" ->
              /\ sends' = [sends EXCEPT ![s].pc = "done"]
              /\ SetLog(addMessage(LogNow, M_RxNotFound, "ai"))
         [] outcome = "throw" ->
              /\ sends' = [sends EXCEPT ![s].pc = "done", ![s].failed = 1]
              /\ SetLog(addMessage(LogNow, M_FailedSend \o TXT_error, "ai"))
    /\ UNCHANGED <<uiVars, scanVars, calls, disconnecting, rxVars, envVars>>
    /\ PeripheralIdle

\* the write of a send that comes next: writeWithoutResponse first,
\* writeWithResponse in the catch of the first
WriteMode(send) ==
    IF send.pc = "first" THEN "withoutResponse" ELSE "withResponse"

\* Variant of SendWrite: a second failure starts over with the first write
SendWrite_Retries(s, ok) ==
    /\ s \in 1 .. Len(sends)
    /\ sends[s].pc \in {"first", "second"}
    /\ ok => LinkIsUp
    /\ IF ok
       THEN /\ \E value \in {Written(sends[s])} : PeripheralTakes(value)
            /\ SetLog(addMessage(LogNow, M_Sent \o sends[s].message, "user"))
            /\ sends' = [sends EXCEPT ![s].pc = "done",
                                      ![s].tries = Append(@, WriteMode(sends[s])),
                                      ![s].sent = @ + 1]
       ELSE /\ IF sends[s].pc = "first" \/ Len(sends[s].tries) < 3
               THEN /\ sends' = [sends EXCEPT
                                    ![s].pc = IF @ = "first" THEN "second" ELSE "first",
                                    ![s].tries = Append(@, WriteMode(sends[s]))]
                    /\ UNCHANGED logVars
               ELSE /\ sends' = [sends EXCEPT
                                    ![s].pc = "done",
                                    ![s].tries = Append(@, WriteMode(sends[s])),
                                    ![s].failed = @ + 1]
                    /\ SetLog(addMessage(LogNow, M_FailedSend \o TXT_error, "ai"))
            /\ UNCHANGED inbox
            /\ PeripheralIdle
    /\ UNCHANGED <<uiVars, scanVars, calls, disconnecting, monitoring, discEvent, envVars>>

\* a write of sendBLEMessage resolves or rejects (App.tsx:608-626)
SendWrite(s, ok) ==
    /\ s \in 1 .. Len(sends)
    /\ sends[s].pc \in {"first", "second"}
    /\ ok => LinkIsUp
    /\ IF ok
       THEN /\ \E value \in {Written(sends[s])} : PeripheralTakes(value)
            /\ SetLog(addMessage(LogNow, M_Sent \o sends[s].message, "user"))
            /\ sends' = [sends EXCEPT ![s].pc = "done",
                                      ![s].tries = Append(@, WriteMode(sends[s])),
                                      ![s].sent = @ + 1]
       ELSE /\ IF sends[s].pc = "first"
               THEN /\ sends' = [sends EXCEPT
                                    ![s].pc = "second",
                                    ![s].tries = Append(@, WriteMode(sends[s]))]
                    /\ UNCHANGED logVars
               ELSE /\ sends' = [sends EXCEPT
                                    ![s].pc = "done",
                                    ![s].tries = Append(@, WriteMode(sends[s])),
                                    ![s].failed = @ + 1]
                    /\ SetLog(addMessage(LogNow, M_FailedSend \o TXT_error, "ai"))
            /\ UNCHANGED inbox
            /\ PeripheralIdle
    /\ UNCHANGED <<uiVars, scanVars, calls, disconnecting, monitoring, discEvent, envVars>>

\* Variant of monitorCallback: the last branch has no test of
\* jsonData.message
monitorCallback_FallbackAlways(log, value) ==
    LET decodedValue == Utf8Decode(fromBase64(value))
        jsonData == JSON_parse(decodedValue)
        type == StringOr(jsonData.doc, K_type)
        message == JsMember(jsonData.doc, K_message)
    IN  IF jsonData.error
        THEN addMessage(log, P_Device \o value, "device")
        ELSE IF type = T_connected
        THEN addMessage(log, P_Connected \o message, "device")
        ELSE IF type = T_ai_response
        THEN addMessage(log, P_AiResponse \o message, "device")
        ELSE IF type = T_welcome
        THEN addMessage(log, P_Welcome \o message, "device")
        ELSE IF type = T_test_response
        THEN addMessage(log, P_Device \o message, "device")
        ELSE IF type = T_btn
        THEN addMessage(log, P_Button \o message, "device")
        ELSE addMessage(log, P_Device \o message, "device")

\* the callback of txCharacteristic.monitor for one notification: the log
\* afterwards
monitorCallback(log, value) ==
    LET decodedValue == Utf8Decode(fromBase64(value))
        jsonData == JSON_parse(decodedValue)
        type == StringOr(jsonData.doc, K_type)
        message == JsMember(jsonData.doc, K_message)
    IN  IF jsonData.error
        THEN addMessage(log, P_Device \o value, "device")
        ELSE IF type = T_connected
        THEN addMessage(log, P_Connected \o message, "device")
        ELSE IF type = T_ai_response
        THEN addMessage(log, P_AiResponse \o message, "device")
        ELSE IF type = T_welcome
        THEN addMessage(log, P_Welcome \o message, "device")
        ELSE IF type = T_test_response
        THEN addMessage(log, P_Device \o message, "device")
        ELSE IF type = T_btn
        THEN addMessage(log, P_Button \o message, "device")
        ELSE IF JsTruthy(jsonData.doc, K_message)
        THEN addMessage(log, P_Device \o message, "device")
        ELSE log

\* a notification is handed to the monitor
MonitorNotification ==
    /\ inbox # <<>>
    /\ SetLog(monitorCallback(LogNow, Head(inbox)))
    /\ inbox' = Tail(inbox)
    /\ UNCHANGED <<uiVars, scanVars, asyncVars, monitoring, discEvent, envVars>>
    /\ PeripheralIdle

\* the user presses Connect while connected: handleConnection calls
\* disconnectDevice, which awaits cancelConnection()
disconnectDevice ==
    /\ isConnected
    /\ connectedDevice # "none"
    /\ disconnecting = "no"
    /\ disconnecting' = "awaiting"
    /\ UNCHANGED <<uiVars, logVars, scanVars, calls, sends, rxVars, envVars>>
    /\ PeripheralIdle

\* the link ends, cancelled by the app or lost; the library has an
\* onDisconnected event for the app when the app listens for one
LinkDown(cause) ==
    /\ LinkIsUp
    /\ cause = "cancel" => disconnecting = "awaiting"
    /\ cause # "cancel" => nLost < MaxLost
    /\ PeripheralDrops
    /\ monitoring' = FALSE
    /\ discEvent' = IF connectedDevice = "none" THEN discEvent
                    ELSE IF cause = "error" THEN "error" ELSE "plain"
    /\ disconnecting' = IF cause = "cancel" THEN "cancelled" ELSE disconnecting
    /\ nLost' = IF cause = "cancel" THEN nLost ELSE nLost + 1
    /\ UNCHANGED <<uiVars, logVars, scanVars, calls, sends, inbox, now, nTests, nQr>>

\* Variant of DisconnectDone: the session is cleared inside the try block,
\* after cancelConnection() has resolved, so a failed cancel leaves it
DisconnectDone_ClearsOnSuccess ==
    /\ disconnecting # "no"
    /\ ~LinkIsUp
    /\ IF disconnecting = "cancelled"
       THEN /\ SetLog(addMessage(LogNow, M_DisconnectedFrom \o DEVICE_NAME, "ai"))
            /\ isConnected' = FALSE
            /\ connectedDevice' = "none"
       ELSE UNCHANGED <<logVars, isConnected, connectedDevice>>
    /\ disconnecting' = "no"
    /\ UNCHANGED <<isScanning, dynamicUUIDs, scanVars, calls, sends, rxVars, envVars>>
    /\ PeripheralIdle

\* disconnectDevice after its await
DisconnectDone ==
    /\ disconnecting # "no"
    /\ ~LinkIsUp
    /\ IF disconnecting = "cancelled"
       THEN SetLog(addMessage(LogNow, M_DisconnectedFrom \o DEVICE_NAME, "ai"))
       ELSE UNCHANGED logVars
    /\ isConnected' = FALSE
    /\ connectedDevice' = "none"
    /\ disconnecting' = "no"
    /\ UNCHANGED <<isScanning, dynamicUUIDs, scanVars, calls, sends, rxVars, envVars>>
    /\ PeripheralIdle

\* the listener of connectedDevice.onDisconnected; without a connected
\* device the app has none and the event is dropped
onDisconnected ==
    /\ discEvent # "none"
    /\ discEvent' = "none"
    /\ IF connectedDevice # "none"
       THEN /\ isConnected' = FALSE
            /\ connectedDevice' = "none"
            /\ SetLog(IF discEvent = "error"
                      THEN addMessage(addMessage(LogNow, M_DeviceDisconnected, "ai"),
                                      M_DisconnectionError \o TXT_error, "ai")
                      ELSE addMessage(LogNow, M_DeviceDisconnected, "ai"))
       ELSE UNCHANGED <<isConnected, connectedDevice, logVars>>
    /\ UNCHANGED <<isScanning, dynamicUUIDs, scanVars, asyncVars, monitoring, inbox, envVars>>
    /\ PeripheralIdle

\* the first eight characters of the service UUID a QR code carries
UuidPrefix(result) ==
    IF result = "device"
    THEN <<"6", "E", "4", "0", "0", "0", "0", "1">>
    ELSE <<"0", "0", "0", "0", "1", "8", "0", "F">>

\* onSuccess(e) of the camera, or handleQRSubmit() of the text input, for
\* what parseQRData makes of the data
QrHandler(mode, result) ==
    /\ nQr < MaxQr
    /\ nQr' = nQr + 1
    /\ IF result # "invalid"
       THEN /\ dynamicUUIDs' = result
            /\ SetLog(qrMessage(LogNow,
                   (IF mode = "camera" THEN M_QrScanned ELSE M_QrProcessed)
                       \o UuidPrefix(result) \o <<".", ".", ".">>))
       ELSE /\ UNCHANGED dynamicUUIDs
            /\ SetLog(qrMessage(LogNow,
                   IF mode = "camera" THEN M_QrInvalidScan ELSE M_QrInvalidText))
    /\ UNCHANGED <<isConnected, connectedDevice, isScanning, scanVars, asyncVars,
                   rxVars, now, nTests, nLost>>
    /\ PeripheralIdle

\* a millisecond passes
Tick ==
    /\ now < MaxNow
    /\ now' = now + 1
    /\ UNCHANGED <<uiVars, logVars, scanVars, asyncVars, rxVars, nTests, nQr, nLost>>
    /\ PeripheralIdle

\* bounds of the app's runs with the transport: presses of Connect, QR results
MaxScansApp == 1
MaxQrApp == 1

NextApp ==
    \/ (Len(attempts) < MaxScansApp /\ scanForDevices)
    \/ \E k \in 1 .. Len(attempts), name \in {DEVICE_NAME} : BroadCallback(k, name)
    \/ \E k \in 1 .. Len(attempts) : Timer8(k)
    \/ \E k \in 1 .. Len(attempts) : Timer500(k)
    \/ \E k \in 1 .. Len(attempts) : TargetedCallback(k)
    \/ \E k \in 1 .. Len(attempts) : Timer18(k)
    \/ \E c \in 1 .. Len(calls) : ConnectResolve(c)
    \/ \E c \in 1 .. Len(calls) : ConnectReject(c)
    \/ \E c \in 1 .. Len(calls), mtu \in ExchangedMtus : SetupResolve(c, mtu)
    \/ \E c \in 1 .. Len(calls) : SetupReject(c)
    \/ \E c \in 1 .. Len(calls), outcome \in {"listening", "not_found", "error"} :
           NotifySetup(c, outcome)
    \/ sendTestMessage
    \/ \E s \in 1 .. Len(sends), outcome \in {"found", "not_found", "throw"} :
           SendLookup(s, outcome)
    \/ \E s \in 1 .. Len(sends), ok \in BOOLEAN : SendWrite(s, ok)
    \/ MonitorNotification
    \/ disconnectDevice
    \/ \E cause \in {"cancel", "lost", "error"} : LinkDown(cause)
    \/ DisconnectDone
    \/ onDisconnected
    \/ \E mode \in {"camera", "text"}, result \in QrInputs :
           attempts = <<>> /\ nQr < MaxQrApp /\ QrHandler(mode, result)

SpecApp == Init /\ [][NextApp]_vars

\* ------------------------------------------------------------------------
\* Scanning and connecting on their own: up to MaxScans presses of Connect,
\* with the outcomes of device.connect() and the ways a link ends

NextScan ==
    \/ scanForDevices
    \/ \E k \in 1 .. Len(attempts), name \in {DEVICE_NAME, OTHER_NAME} :
           BroadCallback(k, name)
    \/ \E k \in 1 .. Len(attempts) : BroadError(k)
    \/ \E k \in 1 .. Len(attempts) : Timer8(k)
    \/ \E k \in 1 .. Len(attempts) : Timer500(k)
    \/ \E k \in 1 .. Len(attempts) : TargetedCallback(k)
    \/ \E k \in 1 .. Len(attempts) : Timer18(k)
    \/ \E c \in 1 .. Len(calls) : ConnectResolve(c)
    \/ \E c \in 1 .. Len(calls) : ConnectReject(c)
    \/ disconnectDevice
    \/ \E cause \in {"cancel"} : LinkDown(cause)
    \/ DisconnectDone
    \/ onDisconnected

SpecScan == Init /\ [][NextScan]_vars



\* ------------------------------------------------------------------------
\* Claims about the two tasks (SpecRace)

\* the other task
OtherTask(task) == IF task = "ble" THEN "main" ELSE "ble"

\* the task is inside add_message_to_queue
InAppend(task) ==
    ctx[task].pc \in {"add_test", "add_store", "add_count", "add_shift",
                      "add_last", "add_cursor", "add_show"}

\* the task has written a part of an append and not yet the rest: slots,
\* count and cursor are in a combination no completed append leaves
MidAppend(task) ==
    \/ ctx[task].pc \in {"add_count", "add_last", "add_cursor"}
    \/ ctx[task].pc = "add_shift" /\ ctx[task].i >= 1

\* the step is the task's read of the entry under the cursor for display
ReadsForDisplay(task) ==
    /\ ctx[task].pc \in {"add_show", "next_show"}
    /\ ctx'[task] # ctx[task]

\* C5: under any interleaving of the appends of the BLE callbacks with the
\* appends and cursor moves of the main loop, message_count stays at most
\* MAX_MESSAGES and every index used to read or write message_queue stays
\* within 0..MAX_MESSAGES-1.
C5_BoundsUnderInterleaving ==
    /\ message_count <= MAX_MESSAGES
    /\ ~oob

\* C6: a read-for-display never happens while the other task is in the
\* middle of an append, and the two tasks are never inside an append at the
\* same time.
C6_Step ==
    /\ ~(InAppend("ble") /\ InAppend("main"))
    /\ \A task \in Tasks : ReadsForDisplay(task) => ~MidAppend(OtherTask(task))

C6_NoTornRead ==
    [][C6_Step]_vars

\* ------------------------------------------------------------------------
\* Claims about the peripheral (Spec)

\* C7: while Connected, a connection of a second peer changes neither
\* deviceConnected nor what the session of the admitted peer has: the
\* history queue and the link.
C7_Step ==
    (/\ deviceConnected
     /\ admitted # {}
     /\ \E p \in Peers \ admitted : admitted' = admitted \cup {p})
    => /\ deviceConnected' = deviceConnected
       /\ UNCHANGED queueVars
       /\ \A q \in admitted : link'[q] = link[q]

C7_SecondConnectChangesNothing ==
    [][C7_Step]_vars

\* C8: deviceConnected holds if and only if exactly one peer is admitted,
\* and there are never two admitted peers.
C8_ConnectedIffOnePeer ==
    /\ deviceConnected <=> Cardinality(admitted) = 1
    /\ Cardinality(admitted) <= 1

\* C9: every notification handed to the stack is no longer than the ATT MTU
\* negotiated on each link it goes out on.
C9_FramesWithinNegotiatedLimit ==
    \A n \in 1 .. Len(tx) : \A p \in admitted : Len(tx[n]) <= link[p]

\* the written bytes are one JSON object
IsValidJson(bytes) == ~deserializeJson(bytes).error

\* C10: a write of bytes that are not valid JSON leaves the history queue
\* (contents, length, cursor) unchanged and sends no reply.
C10_Step ==
    nWrites' = nWrites + 1
    => \A value \in {rx_value'} :
           ~IsValidJson(value) => (UNCHANGED queueVars /\ tx' = <<>>)

C10_MalformedChangesNothing ==
    [][C10_Step]_vars

\* the entries of the history queue, oldest first
QueueEntries(mq, mc) == [n \in 1 .. mc |-> mq[n - 1]]

\* the last MAX_MESSAGES entries of a sequence
LastEntries(entries) ==
    IF Len(entries) <= MAX_MESSAGES
    THEN entries
    ELSE SubSeq(entries, Len(entries) - MAX_MESSAGES + 1, Len(entries))

\* str ends with tail
EndsWith(str, tail) ==
    /\ Len(tail) <= Len(str)
    /\ SubSeq(str, Len(str) - Len(tail) + 1, Len(str)) = tail

\* the type member of a transmitted frame
FrameType(frame) == StringOr(deserializeJson(frame).doc, K_type)

\* the notifications are exactly one frame of the given type
OneReply(frames, type) ==
    Len(frames) = 1 /\ FrameType(frames[1]) = type

\* C11: for each successfully decoded frame written while Connected the
\* peripheral appends exactly one history entry that contains the frame's
\* message, and transmits exactly the reply of the dispatch table:
\* ai_request -> one ai_response, test -> one test_response, hello -> one
\* welcome, any other type -> nothing.
C11_Step ==
    (nWrites' = nWrites + 1 /\ deviceConnected)
    => \A value \in {rx_value'}, frames \in {tx'},
          before \in {QueueEntries(message_queue, message_count)},
          after \in {QueueEntries(message_queue', message_count')} :
           \A parsed \in {deserializeJson(CStr(value))} :
               LET type == StringOr(parsed.doc, K_type)
                   message == StringOr(parsed.doc, K_message)
               IN  ~parsed.error
                   => /\ after # <<>>
                      /\ after = LastEntries(Append(before, after[Len(after)]))
                      /\ EndsWith(after[Len(after)], message)
                      /\ IF type = T_ai_request THEN OneReply(frames, T_ai_response)
                         ELSE IF type = T_test THEN OneReply(frames, T_test_response)
                         ELSE IF type = T_hello THEN OneReply(frames, T_welcome)
                         ELSE frames = <<>>

C11_DispatchTable ==
    [][C11_Step]_vars

C11_Witness ==
    /\ nWrites = 1
    /\ deviceConnected
    /\ rx_value = RX_AiRequest
    /\ OneReply(tx, T_ai_response)
    /\ message_count >= 2

\* ------------------------------------------------------------------------
\* Claims about the codecs (SpecCodec)

\* C16: a frame whose encoded form is at most 200 bytes comes out of the
\* other side's receive path with the same type, message and action.
C16_RoundTrip ==
    (codec.stage = "decoded" /\ Len(codec.json) <= MAX_NOTIFICATION_SIZE)
    => /\ codec.out.ok
       /\ codec.out.type = codec.frame.type
       /\ codec.out.message = codec.frame.message
       /\ codec.out.action = codec.frame.action

\* ------------------------------------------------------------------------
\* Claims about scanning (SpecScan)

\* the calls of connectToDevice made for attempt k
CallsOf(k) == {c \in 1 .. Len(calls) : calls[c].by = k}

\* C13: when the broad scan of an attempt sees a device named
\* 'AI-Companion', the same step stops the scan, clears isScanning and
\* starts connectToDevice, while the 8000 ms timer of the attempt is still
\* armed; and a targeted scan is started only for an attempt whose
\* 8000 ms timer has fired with foundEsp32 still false.
C13_Step ==
    /\ \A k \in 1 .. Len(attempts) :
           (~attempts[k].foundEsp32 /\ attempts'[k].foundEsp32)
           => /\ scanner = [mode |-> "broad", by |-> k]
              /\ scanner' = ScannerOff
              /\ ~isScanning'
              /\ attempts'[k].t8 = "armed"
              /\ Len(calls') = Len(calls) + 1
              /\ calls'[Len(calls')].by = k
              /\ calls'[Len(calls')].pc = "connect"
    /\ (scanner'.mode = "targeted" /\ scanner # scanner')
       => /\ attempts'[scanner'.by].t8 = "fired"
          /\ ~attempts'[scanner'.by].foundEsp32
          /\ CallsOf(scanner'.by) = {}

C13_MatchStopsBroadPhase == [][C13_Step]_vars

\* a match in the broad phase: the scan is off and the call of
\* connectToDevice is waiting for device.connect(), before the 8000 ms timer
C13_Witness ==
    \E k \in 1 .. Len(attempts) :
        /\ attempts[k].foundEsp32
        /\ attempts[k].t8 = "armed"
        /\ scanner = ScannerOff
        /\ ~isScanning
        /\ \E c \in CallsOf(k) : calls[c].pc = "connect"

\* C14: for a scan in which no matching peer appeared, at most one timeout
\* notification is recorded while it is the user's latest scan, and exactly
\* one once the 18000 ms timer of the latest scan has fired.
C14_OneTimeoutPerScan ==
    \A k \in 1 .. Len(attempts) :
        CallsOf(k) = {}
        => /\ attempts[k].timeoutNotes <= 1
           /\ (k = Len(attempts) /\ attempts[k].t18 = "fired")
              => attempts[k].timeoutNotes = 1

HandshakeDue ==
    \E c \in 1 .. Len(calls) : calls[c].pc = "done" /\ calls[c].notify = "listening"

\* the app has nothing left to run: no continuation of connectToDevice,
\* setupNotifications, sendBLEMessage or disconnectDevice is pending and no
\* notification or event waits for its callback
Quiescent ==
    /\ \A c \in 1 .. Len(calls) :
           calls[c].pc \in {"done", "failed"} /\ calls[c].notify # "pending"
    /\ \A s \in 1 .. Len(sends) : sends[s].pc = "done"
    /\ inbox = <<>>
    /\ disconnecting = "no"
    /\ discEvent = "none"

\* the log holds the device-origin entry made of a welcome frame
WelcomeLogged ==
    \E n \in 1 .. Len(messages) :
        /\ messages[n].type = "device"
        /\ messages[n].text = P_Welcome \o TXT_HelloReadyToChat

\* C12: once connectToDevice has connected, set the transport up and
\* subscribed, and the link is up, the Conversation Log holds the
\* device-origin entry of the peripheral's welcome frame by the time the app
\* has nothing left to run (with fair scheduling, what "eventually" leaves
\* to check in a state).
C12_Handshake ==
    (HandshakeDue /\ LinkIsUp /\ Quiescent) => WelcomeLogged

\* the closure of the call of connectToDevice c says not connected
StaleNotConnected(c) ==
    LET cap == attempts[calls[c].by].cap
    IN  cap.connectedDevice = "none" \/ ~cap.isConnected

\* nothing reaches the peripheral and the connection state stays
NothingSent ==
    /\ nWrites' = nWrites
    /\ rx_value' = rx_value
    /\ tx' = <<>>
    /\ UNCHANGED queueVars
    /\ UNCHANGED <<isConnected, connectedDevice, deviceConnected, link>>

\* C17: a send while not connected transmits nothing and leaves the
\* connection state alone. The peripheral's send_ble_message with
\* deviceConnected false notifies nothing, for every frame; the central's
\* sendBLEMessage, called with a closure that says not connected, only adds
\* the entry 'Not connected to device' to the log; and a send of the central
\* that is under way when the link is down writes nothing and adds at most
\* one entry to the log.
C17_Step ==
    /\ \A type \in CodecTypes, message \in CodecMessages, action \in CodecActions :
           send_ble_message(FALSE, type, message, action) = <<>>
    /\ \A c \in 1 .. Len(calls) :
           (calls[c].pc = "setup" /\ calls'[c].pc = "done" /\ StaleNotConnected(c))
           => /\ sends' = sends
              /\ nWrites' = nWrites
              /\ rx_value' = rx_value
              /\ UNCHANGED queueVars
              /\ UNCHANGED <<isConnected, connectedDevice, deviceConnected>>
              /\ messages'[Len(messages')].text = M_NotConnected
    /\ \A s \in 1 .. Len(sends) :
           (sends'[s] # sends[s] /\ ~LinkIsUp)
           => /\ NothingSent
              /\ Len(messages') <= Len(messages) + 1

C17_SendWhileNotConnected == [][C17_Step]_vars

\* the hello of connectToDevice was refused by the guard, and a send of the
\* user failed in its lookups after the link went down
C17_Witness ==
    /\ \E n \in 1 .. Len(messages) : messages[n].text = M_NotConnected
    /\ \E s \in 1 .. Len(sends) :
           sends[s].pc = "done" /\ sends[s].failed = 1 /\ sends[s].tries = <<>>
    /\ nWrites = 0

\* the call of connectToDevice c fails in this step: in connect(), in the
\* awaits up to services(), or in setupNotifications
FailsNow(c) ==
    \/ calls[c].pc # "failed" /\ calls'[c].pc = "failed"
    \/ calls[c].notify = "pending" /\ calls'[c].notify \in {"not_found", "error"}

\* C18: the step in which a connection attempt fails, in connect or in the
\* transport setup, leaves the session idle (not connected, no device, not
\* scanning), adds exactly one entry to the log and starts no call of
\* connectToDevice. Steps taken while an onDisconnected event is still to
\* be handed over are left out: its listener is about to clear the session.
C18_Step ==
    \A c \in 1 .. Len(calls) :
        (FailsNow(c) /\ discEvent = "none")
        => /\ ~isConnected'
           /\ connectedDevice' = "none"
           /\ ~isScanning'
           /\ Len(messages') = Len(messages) + 1
           /\ Len(calls') = Len(calls)

C18_FailureReturnsToIdle == [][C18_Step]_vars

RECURSIVE SumField(_, _)
SumField(recs, field) ==
    IF recs = <<>> THEN 0 ELSE recs[1][field] + SumField(Tail(recs), field)

\* the number of entries of the log with a property
UserEntries == Cardinality({n \in 1 .. Len(messages) : messages[n].type = "user"})
FailedSendEntries ==
    Cardinality({n \in 1 .. Len(messages) : messages[n].text = M_FailedSend \o TXT_error})

\* C19: a send tries writeWithoutResponse, then at most once
\* writeWithResponse; it ends with one 'Sent' entry of type user when a
\* write went through, with one failure entry when both failed, and the
\* peripheral took as many writes as there are 'Sent' entries.
C19_AtMostTwoWrites ==
    /\ \A s \in 1 .. Len(sends) :
           LET r == sends[s]
           IN  /\ r.tries \in {<<>>, <<"withoutResponse">>,
                               <<"withoutResponse", "withResponse">>}
               /\ r.pc = "second" => r.tries = <<"withoutResponse">>
               /\ r.pc # "done" => (r.sent = 0 /\ r.failed = 0)
               /\ (r.pc = "done" /\ r.tries # <<>>)
                  => \/ r.sent = 1 /\ r.failed = 0
                     \/ /\ r.sent = 0 /\ r.failed = 1
                        /\ r.tries = <<"withoutResponse", "withResponse">>
               /\ (r.pc = "done" /\ r.tries = <<>>) => r.sent = 0
    /\ SumField(sends, "sent") = UserEntries
    /\ SumField(sends, "sent") = nWrites
    /\ SumField(sends, "failed") = FailedSendEntries

\* a send whose first write failed and whose second went through
C19_Witness ==
    \E s \in 1 .. Len(sends) :
        /\ sends[s].pc = "done"
        /\ sends[s].tries = <<"withoutResponse", "withResponse">>
        /\ sends[s].sent = 1
        /\ UserEntries = 1

\* ------------------------------------------------------------------------
\* The Conversation Log and its ids: status entries of a scan, QR results
\* and the clock

NextIds ==
    \/ (Len(attempts) < MaxScansApp /\ scanForDevices)
    \/ \E k \in 1 .. Len(attempts), name \in {DEVICE_NAME, OTHER_NAME} :
           BroadCallback(k, name)
    \/ \E k \in 1 .. Len(attempts) : BroadError(k)
    \/ \E c \in 1 .. Len(calls) : ConnectReject(c)
    \/ \E mode \in {"camera", "text"}, result \in QrInputs : QrHandler(mode, result)
    \/ Tick

SpecIds == Init /\ [][NextIds]_vars

\* C20: the ids of the entries of the Conversation Log are pairwise
\* distinct.
C20_IdsDistinct ==
    \A m, n \in 1 .. Len(messages) :
        m # n => messages[m].id # messages[n].id

\* ------------------------------------------------------------------------
\* Claims about the peripheral's callbacks (Spec)

\* the written value parses as JSON and the document has no type member
LacksType(value) ==
    LET parsed == deserializeJson(CStr(value))
    IN  /\ Len(CStr(value)) > 0
        /\ ~parsed.error
        /\ K_type \notin DOMAIN parsed.doc

\* C21: a write of valid JSON without a type member leaves the history
\* queue as it was and sends no notification.
C21_Step ==
    (nWrites' = nWrites + 1 /\ LacksType(rx_value'))
    => (UNCHANGED queueVars /\ tx' = <<>>)

C21_NoTypeRejected == [][C21_Step]_vars

\* the peer p is admitted in this step
Admits(p) == p \notin admitted /\ p \in admitted'

\* the history queue after the step is the one before plus the entry
Appends(entry) ==
    QueueEntries(message_queue', message_count')
        = LastEntries(Append(QueueEntries(message_queue, message_count), entry))

\* what the connect callback does apart from the size limit
ConnectEffects ==
    /\ advertising
    /\ deviceConnected'
    /\ Appends(MSG_PhoneConnected)
    /\ OneReply(tx', T_connected)

\* C22: when a peer connects while the peripheral advertises, the
\* peripheral is connected afterwards, the size limit its sends apply in
\* the session is within what the link has negotiated, one history entry
\* 'Phone connected!' is appended and one frame of type connected is sent.
C22_Step ==
    \A p \in Peers :
        Admits(p) => (ConnectEffects /\ MAX_NOTIFICATION_SIZE <= link'[p])

C22_ConnectRecordsLimit == [][C22_Step]_vars

\* the peer p is dropped in this step
Drops(p) == p \in admitted /\ p \notin admitted'

\* the main loop issues startAdvertising() in this step
LoopAdvertises == loop_pc = "delay" /\ loop_pc' = "run"

\* C23: the step in which a peer disconnects leaves the peripheral not
\* connected and advertising, with one history entry 'Phone disconnected'
\* appended, so that the stack can admit a peer again; and when the main
\* loop issues the advertisement while it is already active, the
\* advertisement stays active and links, connection flag and history queue
\* are as before.
C23_Step ==
    /\ \A p \in Peers :
           Drops(p)
           => /\ ~deviceConnected'
              /\ advertising'
              /\ Appends(MSG_PhoneDisconnected)
              /\ p \notin admitted'
    /\ (LoopAdvertises /\ advertising)
       => /\ advertising'
          /\ UNCHANGED <<link, deviceConnected, queueVars>>

C23_DisconnectReadvertises == [][C23_Step]_vars

\* a peer has connected, disconnected and connected again, and between
\* the two connections the main loop has issued the advertisement that the
\* disconnect callback had already started
C23_Witness ==
    /\ QueueEntries(message_queue, message_count)
           = <<MSG_PhoneConnected, MSG_Ready, MSG_PhoneDisconnected, MSG_PhoneConnected>>
    /\ admitted = {"phone"}
    /\ deviceConnected /\ ~oldDeviceConnected
    /\ btn1_hidden
    /\ loop_pc = "run"

\* ------------------------------------------------------------------------
\* Claims about sends and the two tasks (SpecRace)

\* C24: a step of the peripheral hands a frame to notify() only in a state
\* in which deviceConnected holds.
C24_TransmitsOnlyConnected ==
    tx # <<>> => deviceConnected

\* ------------------------------------------------------------------------
\* Claims about the size ceiling (SpecCodec)

\* the notifications of the peripheral for the chosen frame
DownFrames ==
    send_ble_message(TRUE, codec.frame.type, codec.frame.message, codec.frame.action)

\* C25: while connected, send_ble_message hands exactly one value to
\* notify(): the encoded frame as it is when it has at most
\* MAX_NOTIFICATION_SIZE bytes, its first MAX_NOTIFICATION_SIZE bytes
\* otherwise; that value is what the central's monitor receives.
C25_OneNotification ==
    (codec.dir = "down" /\ codec.stage \in {"encoded", "sent"})
    => /\ Len(DownFrames) = 1
       /\ DownFrames[1] =
              IF Len(codec.json) <= MAX_NOTIFICATION_SIZE
              THEN codec.json
              ELSE SubSeq(codec.json, 1, MAX_NOTIFICATION_SIZE)
       /\ codec.stage = "sent" => fromBase64(codec.wire) = DownFrames[1]

\* a frame one byte over the limit has gone out cut to the limit
C25_Witness ==
    /\ codec.dir = "down"
    /\ codec.stage = "sent"
    /\ Len(codec.json) = MAX_NOTIFICATION_SIZE + 1
    /\ Len(fromBase64(codec.wire)) = MAX_NOTIFICATION_SIZE

\* C26: a frame of the central whose encoded form has at most
\* maxPayloadSize bytes is written to the peripheral as it is.
C26_ShortFramesUnmodified ==
    (codec.dir = "up" /\ codec.stage = "sent" /\ Len(codec.json) <= maxPayloadSize)
    => codec.wire = codec.json

\* ------------------------------------------------------------------------
\* Claims about the cursor of the history queue (Spec)

\* the history queue with the cursor on the entry c, where the display
\* operations can have left it
CursorAt(c) == [HQ EXCEPT !.ci = c]

\* the cursor of the queue q is on its newest entry
OnNewest(q) == q.ci = q.mc - 1

\* the written value is decoded: not empty and valid JSON
Decoded(value) ==
    Len(CStr(value)) > 0 /\ ~deserializeJson(CStr(value)).error

\* C27: after every append to the history queue and after every handled
\* write of a decoded frame, current_message_index is message_count - 1;
\* and the same comes out of add_message_to_queue and of onWrite when the
\* cursor was on any other entry before.
C27_Step ==
    /\ (message_queue' # message_queue \/ message_count' # message_count)
       => /\ current_message_index' = message_count' - 1
          /\ \A c \in 0 .. (message_count - 1), message \in QueueInputs :
                 OnNewest(add_message_to_queue(CursorAt(c), message))
    /\ (nWrites' = nWrites + 1 /\ Decoded(rx_value'))
       => /\ current_message_index' = message_count' - 1
          /\ \A c \in 0 .. (message_count - 1) :
                 OnNewest(onWrite(CursorAt(c), deviceConnected, rx_value').q)

C27_CursorOnNewest == [][C27_Step]_vars

\* a frame of a type without a reply has been handled with several entries
\* in the queue
C27_Witness ==
    /\ nWrites = 1
    /\ rx_value = RX_Other
    /\ message_count >= 3
    /\ current_message_index = message_count - 1
    /\ message_queue[current_message_index] = PFX_Phone \o <<"m", "e", "m", "o">>

\* ------------------------------------------------------------------------
\* Claims about the start of a scan and of a connection (SpecScan)

\* a call of connectToDevice is waiting in device.connect()
Connecting == \E c \in 1 .. Len(calls) : calls[c].pc = "connect"

\* the session is idle: not scanning, not connecting, not connected
SessionIdle == ~isScanning /\ ~Connecting /\ ~isConnected

\* C28: a scan is started only when the session is idle; in a state in
\* which the session is scanning, connecting or connected no scan attempt
\* begins.
C28_Step ==
    Len(attempts') > Len(attempts) => SessionIdle

C28_ScanOnlyFromIdle == [][C28_Step]_vars

\* the 18000 ms timer of the attempt k fires in this step
TimeoutFires(k) == attempts[k].t18 = "armed" /\ attempts'[k].t18 = "fired"

\* C29: when a scan attempt has found a match before its 18000 ms timer
\* fires, the timer does nothing: no entry is added to the log and the
\* session (isScanning, the scanner, isConnected, connectedDevice) is as it
\* was.
C29_Step ==
    \A k \in 1 .. Len(attempts) :
        (TimeoutFires(k) /\ CallsOf(k) # {})
        => /\ UNCHANGED logVars
           /\ UNCHANGED <<isScanning, scanner, isConnected, connectedDevice>>

C29_TimeoutCancelledByMatch == [][C29_Step]_vars

\* the calls of connectToDevice that wait in device.connect()
InFlight == {c \in 1 .. Len(calls) : calls[c].pc = "connect"}

\* C30: at most one connection attempt is in flight, and a scan callback
\* with a match starts no call of connectToDevice while one is in flight
\* or the session is connected.
C30_Step ==
    /\ Cardinality(InFlight) <= 1
    /\ Len(calls') > Len(calls) => (InFlight = {} /\ ~isConnected)

C30_OneConnectInFlight == [][C30_Step]_vars

\* ------------------------------------------------------------------------
\* The Conversation Log under taps on its entries

\* entries the user expands or collapses in one run
MaxToggled == 2

\* the entries that have been tapped
Toggled == {n \in 1 .. Len(messages) : messages[n].expanded # "undefined"}

\* the user taps the entry n: onPress={() => toggleMessageExpansion(message.id)}
TapMessage(n) ==
    /\ n \in 1 .. Len(messages)
    /\ n \in Toggled \/ Cardinality(Toggled) < MaxToggled
    /\ messages' = toggleMessageExpansion(messages, messages[n].id)
    /\ UNCHANGED <<messageIdCounter, uiVars, scanVars, asyncVars, rxVars, envVars>>
    /\ PeripheralIdle

NextLog ==
    \/ (attempts = <<>> /\ scanForDevices)
    \/ \E k \in 1 .. Len(attempts) : BroadError(k)
    \/ \E mode \in {"camera", "text"}, result \in QrInputs : QrHandler(mode, result)
    \/ Tick
    \/ \E n \in 1 .. Len(messages) : TapMessage(n)

SpecLog == Init /\ [][NextLog]_vars

\* ------------------------------------------------------------------------
\* Notifications at the monitor of the app: the session is set up once and
\* frames arrive on the TX characteristic

\* log entries after which no further frame arrives
MaxLogged == 10

\* the JSON text of a frame with a type and no other member
TypeOnly(type) == <<"{">> \o Quoted(K_type) \o <<":">> \o Quoted(type) \o <<"}">>

\* a type the dispatch of the app does not know
T_note == <<"n", "o", "t", "e">>

\* the frames that arrive: those the firmware sends, one of them cut at
\* MAX_NOTIFICATION_SIZE, and frames of other senders
NoteInputs ==
    {send_ble_message(TRUE, T_connected, TXT_EspReady, A_ready)[1],
     send_ble_message(TRUE, T_welcome, TXT_HelloReadyToChat, A_ready)[1],
     send_ble_message(TRUE, T_test_response, TXT_HelloFromEsp, A_ack)[1],
     send_ble_message(TRUE, T_btn, TXT_AskAI, A_ask)[1],
     send_ble_message(TRUE, T_ai_response, PFX_AIResponse \o <<"h", "i">>, A_processed)[1],
     send_ble_message(TRUE, T_ai_response, PFX_AIResponse \o OverEdgeMessage, A_processed)[1],
     serializeJson(T_note, <<"m", "e", "m", "o">>, <<>>),
     serializeJson(T_note, <<>>, <<>>),
     TypeOnly(T_note),
     TypeOnly(T_btn),
     RX_NotJson}

\* a frame is notified on the TX characteristic while the app is subscribed
Arrives(frame) ==
    /\ monitoring
    /\ LinkIsUp
    /\ inbox = <<>>
    /\ messageIdCounter < MaxLogged
    /\ inbox' = Append(inbox, toBase64(frame))
    /\ UNCHANGED <<uiVars, logVars, scanVars, asyncVars, monitoring, discEvent, envVars>>
    /\ PeripheralIdle

NextMonitor ==
    \/ (attempts = <<>> /\ scanForDevices)
    \/ \E k \in 1 .. Len(attempts), name \in {DEVICE_NAME} : BroadCallback(k, name)
    \/ \E c \in 1 .. Len(calls) : ConnectResolve(c)
    \/ \E c \in 1 .. Len(calls), mtu \in {LOCAL_MTU} : SetupResolve(c, mtu)
    \/ \E c \in 1 .. Len(calls), outcome \in {"listening"} : NotifySetup(c, outcome)
    \/ \E frame \in NoteInputs : Arrives(frame)
    \/ MonitorNotification

SpecMonitor == Init /\ [][NextMonitor]_vars

\* ------------------------------------------------------------------------
\* Claims about the end of a session and inbound frames (SpecApp)

\* disconnectDevice returns in this step
DisconnectReturns == disconnecting # "no" /\ disconnecting' = "no"

\* C31: when disconnectDevice returns, the session is not connected and
\* holds no device, whether cancelConnection() resolved or failed and
\* whether or not a send is still under way.
C31_Step ==
    DisconnectReturns => (~isConnected' /\ connectedDevice' = "none")

C31_DisconnectEndsIdle == [][C31_Step]_vars

\* a disconnect has gone through while a send was waiting for its write
C31_Witness ==
    /\ ~isConnected
    /\ connectedDevice = "none"
    /\ disconnecting = "no"
    /\ \E n \in 1 .. Len(messages) :
           messages[n].text = M_DisconnectedFrom \o DEVICE_NAME
    /\ \E s \in 1 .. Len(sends) : sends[s].pc \notin {"done"}

\* ------------------------------------------------------------------------
\* Claims about the monitor callback (SpecMonitor)

\* the monitor callback handles the notification at the head of the inbox
Handles(value) == inbox # <<>> /\ Head(inbox) = value /\ inbox' = Tail(inbox)

\* the text the notification carries: its value decoded from base64
RawText(value) == Utf8Decode(fromBase64(value))

\* the log after the step is the log before plus one entry
OneEntryAdded ==
    /\ Len(messages') = Len(messages) + 1
    /\ SubSeq(messages', 1, Len(messages)) = messages

\* C32: a notification with a non-empty value whose text is not JSON adds
\* exactly one entry of type device to the log, and the entry carries the
\* raw text of the notification.
C32_Step ==
    \A value \in {toBase64(frame) : frame \in NoteInputs} :
        (Handles(value) /\ value # <<>> /\ JSON_parse(RawText(value)).error)
        => /\ OneEntryAdded
           /\ messages'[Len(messages')].type = "device"
           /\ Len(messages'[Len(messages')].text) = Len(P_Device) + Len(RawText(value))
           /\ messages'[Len(messages')].text = P_Device \o RawText(value)

C32_UndecodableSurfacedRaw == [][C32_Step]_vars

\* the types the dispatch of the app names
ListedTypes == {T_connected, T_ai_response, T_welcome, T_test_response, T_btn}

\* the document has a message member that is not empty
MessagePresent(doc) == K_message \in DOMAIN doc /\ doc[K_message].val # <<>>

\* C33: a notification whose text is JSON adds exactly one entry of type
\* device when its type is connected, ai_response, welcome, test_response
\* or btn, or when it has any other type and a non-empty message; it leaves
\* the log as it is otherwise. Whatever a notification adds has type
\* device.
C33_Step ==
    \A value \in {toBase64(frame) : frame \in NoteInputs} :
        Handles(value)
        => /\ \A n \in (Len(messages) + 1) .. Len(messages') :
                  messages'[n].type = "device"
           /\ \A parsed \in {JSON_parse(RawText(value))} :
                  ~parsed.error
                  => IF \/ StringOr(parsed.doc, K_type) \in ListedTypes
                        \/ MessagePresent(parsed.doc)
                     THEN OneEntryAdded /\ messages'[Len(messages')].type = "device"
                     ELSE UNCHANGED logVars

C33_InboundDispatch == [][C33_Step]_vars

\* a frame of an unknown type with a message and a btn frame have been
\* handled, in this order
C33_Witness ==
    /\ inbox = <<>>
    /\ Len(messages) >= 2
    /\ messages[Len(messages)].type = "device"
    /\ messages[Len(messages)].text = P_Button \o TXT_AskAI
    /\ messages[Len(messages) - 1].type = "device"
    /\ messages[Len(messages) - 1].text = P_Device \o <<"m", "e", "m", "o">>

\* ------------------------------------------------------------------------
\* Claims about the entries of the Conversation Log (SpecLog)

\* an id no Message has
AbsentId == <<"0">>

\* the entry is the same but for its expanded flag
SameEntry(a, b) == a.id = b.id /\ a.text = b.text /\ a.type = b.type

\* an entry of the log changes its expanded flag in this step
FlagChanges ==
    \E n \in 1 .. Len(messages) : messages'[n].expanded # messages[n].expanded

\* C34: a step that changes an expanded flag flips the flag of the entries
\* with one id and leaves every other entry, the order and the length of
\* the log as they were; toggleMessageExpansion with an id no entry has
\* gives the log back; and no step removes, reorders or rewrites an entry.
C34_Step ==
    /\ Len(messages') >= Len(messages)
    /\ \A n \in 1 .. Len(messages) : SameEntry(messages'[n], messages[n])
    /\ FlagChanges
       => /\ Len(messages') = Len(messages)
          /\ \E m \in 1 .. Len(messages) :
                 \A n \in 1 .. Len(messages) :
                     messages'[n].expanded =
                         IF messages[n].id = messages[m].id
                         THEN NotExpanded(messages[n].expanded)
                         ELSE messages[n].expanded
    /\ toggleMessageExpansion(messages, AbsentId) = messages

C34_ToggleFlipsOne == [][C34_Step]_vars

\* one entry has been expanded and collapsed again, another is expanded,
\* and entries were appended
C34_Witness ==
    /\ Len(messages) > Len(InitialMessages)
    /\ \E m, n \in 1 .. Len(messages) :
           /\ messages[m].expanded = "false"
           /\ messages[n].expanded = "true"
    /\ \E n \in 1 .. Len(messages) : messages[n].expanded = "undefined"

\* ------------------------------------------------------------------------
\* Claims about the scans and the timers of the attempts (SpecScan)

\* a timer of attempt j fires in this step
TimerFires(j) ==
    \/ attempts[j].t8 = "armed" /\ attempts'[j].t8 = "fired"
    \/ attempts[j].t500 = "armed" /\ attempts'[j].t500 = "fired"
    \/ attempts[j].t18 = "armed" /\ attempts'[j].t18 = "fired"

\* C35: one scan at most is active, and a timer armed by one attempt never
\* stops or replaces the scan of a later attempt.
C35_Step ==
    /\ scanner.mode \in {"off", "broad", "targeted"}
    /\ \A j \in 1 .. Len(attempts) :
           TimerFires(j) /\ scanner.by > j => scanner' = scanner

C35_TimersKeepToOwnScan == [][C35_Step]_vars

\* a targeted scan is due: the 8000 ms timer of an attempt that found no
\* peripheral is armed, or its 500 ms timer is
ScanScheduled ==
    \E k \in 1 .. Len(attempts) :
        \/ attempts[k].t500 = "armed"
        \/ attempts[k].t8 = "armed" /\ ~attempts[k].foundEsp32

\* C36: while the session is idle no scan is active at the manager and
\* none is scheduled to start.
C36_IdleMeansNoScan ==
    SessionIdle => scanner = ScannerOff /\ ~ScanScheduled

\* ------------------------------------------------------------------------
\* Claims about the view of the peripheral's main loop (Spec)

\* loop() is between two passes and sees no edge of the connection: with
\* no further connect or disconnect it changes oldDeviceConnected and the
\* button no more
LoopSettled == loop_pc = "run" /\ oldDeviceConnected = deviceConnected

\* C37: once loop() has no edge left to handle, the Ask AI button is
\* visible exactly when deviceConnected is true (the state the loop stays
\* in when the connect and disconnect events stop).
C37_LoopViewSettles ==
    LoopSettled => btn1_hidden = ~deviceConnected

\* ------------------------------------------------------------------------
\* Claims about the link of a session that has ended (SpecApp)

\* the central is back at rest: the session is idle, no call of
\* connectToDevice is between connect() and the end of its setup, and no
\* disconnect is under way
CentralAtRest ==
    /\ SessionIdle
    /\ disconnecting = "no"
    /\ \A c \in 1 .. Len(calls) : calls[c].pc \notin {"connect", "setup"}

\* C38: when the central is back at rest after a session attempt, the link
\* is released: the peripheral is not left holding a link to it.
C38_IdleCentralHoldsNoLink ==
    CentralAtRest => ~LinkIsUp

====
